---- MODULE Spec2Model ----
(***************************************************************************)
(* FORS API (abubakarsd/fors-api): the access-control pipeline.            *)
(*                                                                         *)
(* The store (Supabase tables) is the shared state.  Every HTTP request    *)
(* occupies a slot of req and advances one store call at a time: a step    *)
(* of a request is one awaited store call together with the synchronous    *)
(* code that follows it up to the next await, so requests interleave       *)
(* exactly at the awaits of the handlers.                                   *)
(***************************************************************************)
EXTENDS Integers, Sequences, FiniteSets, TLC

VARIABLES
    users,              \* table users: id -> row
    roles,              \* table roles: id -> role_name
    permissions,        \* table permissions: id -> permission_code
    role_permissions,   \* table role_permissions: set of rows
    project_users,      \* table project_users: set of rows
    farmers,            \* table farmers: id -> row
    nextFarmerId,       \* next id the farmers table hands out
    quarters,           \* table quarters: set of rows
    issued,             \* the OTP mails handed to the transporter, per user
    tokens,             \* the session token each client holds
    now,                \* wall clock, in hours
    req                 \* the requests in flight, one per slot

vars == <<users, roles, permissions, role_permissions, project_users,
          farmers, nextFarmerId, quarters, issued, tokens, now, req>>

store == <<users, roles, permissions, role_permissions, project_users,
           farmers, nextFarmerId, quarters>>

-----------------------------------------------------------------------------
\* Bounds of the model

MaxClock == 1
MaxFarmers == 2
MaxIssued == 3


\* jwt.sign(..., { expiresIn: '1h' })
TokenTTL == 1

Slots == {1}
UserIds == {"u1", "u2", "u3"}
RoleIds == {1, 2}
ProjectIds == {1, 2}
FarmerIds == 1..MaxFarmers

-----------------------------------------------------------------------------
\* Session Token Codec

\* jwt.sign(payload, JWT_SECRET, { expiresIn: '1h' }) at time t
jwt_sign(userId, roleName, t) ==
    [ch |-> "jwt", userId |-> userId, roleName |-> roleName,
     exp |-> t + TokenTTL, sig |-> "JWT_SECRET"]

\* jwt.verify called with ignoreExpiration: the exp claim is not looked at
jwt_verify_ignoreExpiration(token) ==
    /\ Len(token) = 1
    /\ token[1].ch = "jwt"
    /\ token[1].sig = "JWT_SECRET"

\* jwt.verify(token, JWT_SECRET, cb): err unless the token is one well-formed
\* JWT signed with the secret whose exp is still ahead of the clock
jwt_verify(token) ==
    /\ Len(token) = 1
    /\ token[1].ch = "jwt"
    /\ token[1].sig = "JWT_SECRET"
    /\ now < token[1].exp

\* A header value is a string: a sequence of characters.  A space, a word
\* and a whole JWT (which contains no space) are each one character here.
SP == [ch |-> "sp"]
Bearer == [ch |-> "word", w |-> "Bearer"]
Garbage == [ch |-> "word", w |-> "garbage"]

\* String.prototype.split(' ')
RECURSIVE split(_)
split(str) ==
    IF str = <<>> THEN << <<>> >>
    ELSE LET rest == split(Tail(str)) IN
         IF Head(str) = SP THEN << <<>> >> \o rest
         ELSE << <<Head(str)>> \o Head(rest) >> \o Tail(rest)

\* authHeader.split(' ')[0]: the scheme is taken for the token
BearerToken_scheme(headers) ==
    IF "authorization" \notin DOMAIN headers THEN <<>>
    ELSE split(headers.authorization)[1]

\* const token = authHeader && authHeader.split(' ')[1];
\* undefined and '' are both falsy and both shown as the empty string
BearerToken(headers) ==
    IF "authorization" \notin DOMAIN headers THEN <<>>
    ELSE LET parts == split(headers.authorization) IN
         IF Len(parts) < 2 THEN <<>> ELSE parts[2]

-----------------------------------------------------------------------------
\* Requests

\* {}: an object with no keys (no header, no body field)
Empty == [k \in {} |-> 0]

NoUser == [userId |-> "", roleName |-> ""]

\* no session token
NoToken == [ch |-> "none", userId |-> "", roleName |-> "", exp |-> 0,
            sig |-> ""]
NoRes == [status |-> 0, message |-> "", detail |-> ""]

\* An empty slot
\* no role: the name and the linked permissions of an id no row has
NoRole == [role_name |-> "", permission_ids |-> {}]

Idle ==
    [route |-> "", pc |-> "idle", headers |-> Empty, user |-> NoUser,
     id |-> 0, uid |-> "", body |-> Empty, code |-> "",
     res |-> NoRes, writes |-> 0, unhandled |-> FALSE,
     lookups |-> 0, mutated |-> FALSE, perm |-> "none",
     currentProjectId |-> 0, targetProjectId |-> 0,
     projectIds |-> {}, rows |-> {}, otp |-> "null", token |-> NoToken,
     mail |-> "none", before |-> NoRole]

\* res.status(status).json({ message }): the first write is the response;
\* a write after the headers were sent throws ERR_HTTP_HEADERS_SENT
HeadersSent(r) == r.res.status # 0

json(r, status, message) ==
    [r EXCEPT !.res = [status |-> status, message |-> message,
                       detail |-> ""]]

\* the catch block of a handler, entered with an error that is not an
\* 'Access denied' error: res.status(500).json(...); when that write throws
\* too, the async handler's promise is rejected with nobody to handle it
catch(r) ==
    IF HeadersSent(r)
    THEN [r EXCEPT !.writes = @ + 1, !.unhandled = TRUE, !.pc = "done"]
    ELSE [json(r, 500, "Server error.") EXCEPT !.pc = "done"]

\* return res.status(status).json(...) inside the try block of a handler
respond(r, status, message) ==
    IF HeadersSent(r)
    THEN catch([r EXCEPT !.writes = @ + 1])
    ELSE [json(r, status, message) EXCEPT !.pc = "done"]

-----------------------------------------------------------------------------
\* The README's seed of permissions and links, restricted to the codes of
\* the modelled routes (role 1 is Admin, role 2 is User)

PermissionCodes ==
    <<"VIEW_FARMER_RECORDS", "ADD_FARMER_RECORDS", "EDIT_FARMER_RECORDS",
      "DELETE_FARMER_RECORDS", "EDIT_USERS", "EDIT_ROLES">>

PermissionId(code) ==
    CHOOSE i \in DOMAIN PermissionCodes : PermissionCodes[i] = code

SeedLinks ==
    {[role_id |-> 1, permission_id |-> i] : i \in DOMAIN PermissionCodes}
    \cup {[role_id |-> 2, permission_id |-> PermissionId(c)] :
            c \in {"VIEW_FARMER_RECORDS", "ADD_FARMER_RECORDS",
                   "EDIT_FARMER_RECORDS"}}

-----------------------------------------------------------------------------
\* Authentication Gate and Permission Resolver

\* authenticateToken without the re-check of the account in the store
authenticateToken_noRecheck(headers) ==
    LET token == BearerToken(headers) IN
    IF token = <<>>
    THEN [next |-> FALSE, status |-> 401,
          message |-> "Authentication token required.",
          user |-> NoUser, lookups |-> 0]
    ELSE IF ~jwt_verify(token)
    THEN [next |-> FALSE, status |-> 403,
          message |-> "Invalid or expired token.",
          user |-> NoUser, lookups |-> 0]
    ELSE [next |-> TRUE, status |-> 0, message |-> "",
          user |-> [userId |-> token[1].userId,
                    roleName |-> token[1].roleName],
          lookups |-> 0]

\* authenticateToken, up to next(): next is TRUE when next() is called
authenticateToken(headers) ==
    LET token == BearerToken(headers) IN
    IF token = <<>>
    THEN [next |-> FALSE, status |-> 401,
          message |-> "Authentication token required.",
          user |-> NoUser, lookups |-> 0]
    ELSE IF ~jwt_verify(token)
    THEN [next |-> FALSE, status |-> 403,
          message |-> "Invalid or expired token.",
          user |-> NoUser, lookups |-> 0]
    ELSE LET user == [userId |-> token[1].userId,
                      roleName |-> token[1].roleName]
         IN IF \/ user.userId \notin DOMAIN users
               \/ ~users[user.userId].is_active
               \/ users[user.userId].activation_status = FALSE
            THEN [next |-> FALSE, status |-> 403,
                  message |-> "User is inactive or not found.",
                  user |-> user, lookups |-> 1]
            ELSE [next |-> TRUE, status |-> 0, message |-> "",
                  user |-> user, lookups |-> 1]

\* authorizePermission deciding from the links as they were when the
\* token was issued instead of the links in the store
authorizePermission_atIssue(userId, permissionCode) ==
    /\ userId \in DOMAIN users
    /\ users[userId].role_id \in DOMAIN roles
    /\ \E rp \in SeedLinks :
          /\ rp.role_id = users[userId].role_id
          /\ rp.permission_id \in DOMAIN permissions
          /\ permissions[rp.permission_id] = permissionCode

\* authorizePermission letting the role named Admin by without a link
authorizePermission_adminBypass(userId, permissionCode) ==
    /\ userId \in DOMAIN users
    /\ users[userId].role_id \in DOMAIN roles
    /\ \/ roles[users[userId].role_id] = "Admin"
       \/ \E rp \in role_permissions :
             /\ rp.role_id = users[userId].role_id
             /\ rp.permission_id \in DOMAIN permissions
             /\ permissions[rp.permission_id] = permissionCode

\* authorizePermission calling next() for every user the store knows
authorizePermission_anyRole(userId, permissionCode) ==
    userId \in DOMAIN users

\* authorizePermission(permissionCode): the users -> roles ->
\* role_permissions -> permissions join and the .some() over its rows;
\* TRUE when next() is called, FALSE when it answers 403
authorizePermission(userId, permissionCode) ==
    /\ userId \in DOMAIN users
    /\ users[userId].role_id \in DOMAIN roles
    /\ \E rp \in role_permissions :
          /\ rp.role_id = users[userId].role_id
          /\ rp.permission_id \in DOMAIN permissions
          /\ permissions[rp.permission_id] = permissionCode

AccessDenied == "Access denied. Requires permission"

\* the 403 authorizePermission writes when it does not call next()
deny(r) ==
    IF HeadersSent(r) THEN [r EXCEPT !.writes = @ + 1]
    ELSE [r EXCEPT !.res = [status |-> 403, message |-> AccessDenied,
                            detail |-> r.code]]

\* the outcome of authorizePermission recorded on the request
decided(r, granted) ==
    [r EXCEPT !.perm = IF granted THEN "granted" ELSE "denied",
              !.lookups = @ + 1]

\* the permission code each route asks the resolver for
RequiredCode(route, roleName) ==
    CASE route = "POST /api/farmers" ->
            IF roleName # "Admin" THEN "ADD_FARMER_RECORDS"
            ELSE "CREATE_FARMER_RECORDS"
      [] route = "PUT /api/farmers/:id" -> "EDIT_FARMER_RECORDS"
      [] route = "DELETE /api/farmers/:id" -> "DELETE_FARMER_RECORDS"
      [] route = "PUT /api/users/:id" -> "EDIT_USERS"
      [] route = "PUT /api/roles/:id" -> "EDIT_ROLES"
      [] route \in {"GET /api/roles", "GET /api/roles/:id"} -> "VIEW_ROLES"
      [] route = "POST /api/roles" -> "ADD_ROLES"
      [] route = "DELETE /api/roles/:id" -> "DELETE_ROLES"
      [] route \in {"GET /api/users", "GET /api/users/:id"} -> "VIEW_USERS"
      [] route = "POST /api/users" -> "ADD_USERS"
      [] route = "DELETE /api/users/:id" -> "DELETE_USERS"
      [] route \in {"GET /api/permissions", "GET /api/permissions/:id"} ->
            "VIEW_PERMISSIONS"
      [] route = "POST /api/permissions" -> "ADD_PERMISSIONS"
      [] route = "PUT /api/permissions/:id" -> "EDIT_PERMISSIONS"
      [] route = "DELETE /api/permissions/:id" -> "DELETE_PERMISSIONS"
      [] route = "POST /api/projects" -> "CREATE_PROJECTS"
      [] route = "PUT /api/projects/:id" -> "EDIT_PROJECTS"
      [] route = "DELETE /api/projects/:id" -> "DELETE_PROJECTS"
      [] route \in {"GET /api/farmer-types", "GET /api/farmer-types/:id"} ->
            "VIEW_FARMER_TYPES"
      [] route = "POST /api/farmer-types" -> "ADD_FARMER_TYPES"
      [] route = "PUT /api/farmer-types/:id" -> "EDIT_FARMER_TYPES"
      [] route = "DELETE /api/farmer-types/:id" -> "DELETE_FARMER_TYPES"
      [] route \in {"GET /api/quarters", "GET /api/quarters/:id"} ->
            "VIEW_QUARTERS"
      [] route = "POST /api/quarters" -> "ADD_QUARTERS"
      [] route = "PUT /api/quarters/:id" -> "EDIT_QUARTERS"
      [] route = "DELETE /api/quarters/:id" -> "DELETE_QUARTERS"
      [] route \in {"GET /api/data-analysis/farmers-by-gender",
                    "GET /api/data-analysis/farmers-by-type",
                    "GET /api/data-analysis/farmers-by-project",
                    "GET /api/data-analysis/farmers-by-region"} ->
            "ANALYZE_DATA"
      [] route = "GET /api/dashboard/summary" -> "VIEW_DASHBOARD"
      [] OTHER -> ""

\* routes declared as router.verb(path, authenticateToken,
\* authorizePermission(code), handler)
Guarded ==
    {"PUT /api/users/:id", "PUT /api/roles/:id",
     "GET /api/roles", "GET /api/roles/:id", "POST /api/roles",
     "DELETE /api/roles/:id",
     "GET /api/users", "GET /api/users/:id", "POST /api/users",
     "DELETE /api/users/:id",
     "GET /api/permissions", "GET /api/permissions/:id",
     "POST /api/permissions", "PUT /api/permissions/:id",
     "DELETE /api/permissions/:id",
     "POST /api/projects", "PUT /api/projects/:id",
     "DELETE /api/projects/:id",
     "GET /api/farmer-types", "GET /api/farmer-types/:id",
     "POST /api/farmer-types", "PUT /api/farmer-types/:id",
     "DELETE /api/farmer-types/:id",
     "GET /api/quarters", "GET /api/quarters/:id", "POST /api/quarters",
     "PUT /api/quarters/:id", "DELETE /api/quarters/:id",
     "GET /api/data-analysis/farmers-by-gender",
     "GET /api/data-analysis/farmers-by-type",
     "GET /api/data-analysis/farmers-by-project",
     "GET /api/data-analysis/farmers-by-region",
     "GET /api/dashboard/summary"}

\* .from('project_users').select().eq('project_id', p).eq('user_id', u)
\* .single(): a row, or an error when there is none
projectUser(p, u) == [project_id |-> p, user_id |-> u] \in project_users

-----------------------------------------------------------------------------
\* The store the server is started against: the roles, permissions and links
\* of the README's seed, restricted to the codes of the modelled routes;
\* an administrator u2, a user u1 assigned to project 1 and a user u3
\* assigned to no project, each holding the token verify-otp issued to them

NoFarmer == [exists |-> FALSE, project_id |-> 0, full_name |-> ""]

\* bcrypt.hash(password, salt) and bcrypt.compare(password, hash)
bcrypt_hash(password) == [bcrypt |-> password]
bcrypt_compare(password, hash) == hash = bcrypt_hash(password)

\* the address and the password each user registered with
Email(u) == CASE u = "u1" -> "u1@fors" [] u = "u2" -> "u2@fors"
              [] u = "u3" -> "u3@fors"
Password(u) == "secret"

Init ==
    /\ users = [u \in UserIds |->
                  [role_id |-> IF u = "u2" THEN 1 ELSE 2,
                   is_active |-> TRUE, activation_status |-> TRUE,
                   otp |-> "null", email |-> Email(u),
                   password_hash |-> bcrypt_hash(Password(u))]]
    /\ roles = [i \in RoleIds |-> IF i = 1 THEN "Admin" ELSE "User"]
    /\ permissions = [i \in DOMAIN PermissionCodes |-> PermissionCodes[i]]
    /\ role_permissions = SeedLinks
    /\ project_users = {[project_id |-> 1, user_id |-> "u1"]}
    /\ farmers = [f \in FarmerIds |->
                    IF f = 1 THEN [exists |-> TRUE, project_id |-> 2,
                                   full_name |-> "n0"]
                    ELSE NoFarmer]
    /\ nextFarmerId = 2
    /\ quarters = {}
    /\ issued = [u \in UserIds |-> <<>>]
    /\ now = 0
    /\ tokens = [u \in UserIds |->
                   jwt_sign(u, roles[users[u].role_id], 0)]
    /\ req = [s \in Slots |-> Idle]

-----------------------------------------------------------------------------
\* What clients send

Routes ==
    {"GET /api/farmers", "POST /api/farmers", "PUT /api/farmers/:id",
     "DELETE /api/farmers/:id", "PUT /api/users/:id", "PUT /api/roles/:id"}

\* a signed token whose payload was edited afterwards
Tampered(t) == [t EXCEPT !.roleName = "Admin", !.sig = "forged"]

Headers ==
    {Empty}
    \cup {[authorization |-> h] :
            h \in {<<Bearer>>, <<Bearer, SP>>, <<Bearer, SP, Garbage>>,
                   <<tokens["u1"]>>,
                   <<Bearer, SP, Tampered(tokens["u1"])>>}}
    \cup {[authorization |-> <<Bearer, SP, tokens[u]>>] : u \in UserIds}

\* req.params.id and req.body of a request to the route
Inputs(route) ==
    CASE route = "POST /api/farmers" ->
            {[id |-> 0, uid |-> "", body |-> b] :
               b \in {[fullName |-> "n0", farmerTypeId |-> 1]}
                     \cup {[fullName |-> "n0", farmerTypeId |-> 1,
                             projectId |-> p] : p \in ProjectIds}}
      [] route = "PUT /api/farmers/:id" ->
            {[id |-> f, uid |-> "", body |-> b] :
               f \in FarmerIds,
               b \in {Empty} \cup {[projectId |-> p] : p \in ProjectIds}}
      [] route = "DELETE /api/farmers/:id" ->
            {[id |-> f, uid |-> "", body |-> Empty] : f \in FarmerIds}
      [] route = "PUT /api/users/:id" ->
            {[id |-> 0, uid |-> "u1", body |-> b] :
               b \in {[isActive |-> x] : x \in BOOLEAN}
                     \cup {[activationStatus |-> x] : x \in BOOLEAN}}
            \cup {[id |-> 0, uid |-> "u2", body |-> [roleId |-> i]] :
                     i \in RoleIds}
      [] route = "PUT /api/roles/:id" ->
            {[id |-> 2, uid |-> "", body |-> b] :
               b \in {[roleName |-> "Admin"], [roleName |-> "User"]}
                     \cup {[roleName |-> "User", permissionIds |-> ids] :
                             ids \in {{2, 3, 4}}}}
      [] route = "GET /api/farmers/:id" ->
            {[id |-> f, uid |-> "", body |-> Empty] : f \in FarmerIds}
      [] route = "GET /api/projects/:id" ->
            {[id |-> p, uid |-> "", body |-> Empty] : p \in ProjectIds}
      [] OTHER -> {[id |-> 0, uid |-> "", body |-> Empty]}

\* a field of req.body, or the default the destructuring gives it
Field(body, k, default) == IF k \in DOMAIN body THEN body[k] ELSE default

-----------------------------------------------------------------------------
\* Handlers: the synchronous code a handler runs when it is entered, up to
\* its first store call

\* GET /api/farmers
farmersGet(r) ==
    IF r.user.roleName # "Admin" THEN [r EXCEPT !.pc = "get_project_users"]
    ELSE [r EXCEPT !.pc = "get_farmers"]

\* POST /api/farmers
farmersPost(r) ==
    IF \/ "fullName" \notin DOMAIN r.body
       \/ "farmerTypeId" \notin DOMAIN r.body
       \/ Field(r.body, "projectId", 0) = 0
    THEN [json(r, 400, "Full name, farmer type, and project are required.")
            EXCEPT !.pc = "done"]
    ELSE IF r.user.roleName # "Admin"
    THEN [r EXCEPT !.pc = "post_project_users"]
    ELSE [r EXCEPT !.pc = "post_authorize"]

\* PUT /api/farmers/:id
farmersPut(r) == [r EXCEPT !.pc = "put_existing"]

\* DELETE /api/farmers/:id
farmersDelete(r) == [r EXCEPT !.pc = "del_existing"]

\* PUT /api/users/:id (the body carries no email and no password)
usersPut(r) ==
    IF /\ Field(r.body, "roleId", 0) = 0
       /\ "activationStatus" \notin DOMAIN r.body
       /\ "isActive" \notin DOMAIN r.body
    THEN [json(r, 400, "No fields to update provided.") EXCEPT !.pc = "done"]
    ELSE [r EXCEPT !.pc = "uput_update"]

\* PUT /api/roles/:id
rolesPut(r) ==
    IF "roleName" \notin DOMAIN r.body
    THEN [json(r, 400, "Role name is required.") EXCEPT !.pc = "done"]
    ELSE [r EXCEPT !.pc = "rput_existing"]

\* GET /api/farmers/:id
farmerGet(r) == [r EXCEPT !.pc = "fget_farmer"]

\* GET /api/projects
projectsGet(r) == [r EXCEPT !.pc = "pget_projects"]

\* GET /api/projects/:id
projectGet(r) ==
    IF r.user.roleName # "Admin" THEN [r EXCEPT !.pc = "pgid_project_users"]
    ELSE [r EXCEPT !.pc = "pgid_project"]

\* POST /api/roles
rolesPost(r) ==
    IF "roleName" \notin DOMAIN r.body
    THEN [json(r, 400, "Role name is required.") EXCEPT !.pc = "done"]
    ELSE [r EXCEPT !.pc = "rpost_existing"]

\* DELETE /api/permissions/:id
permissionsDelete(r) == [r EXCEPT !.pc = "pdel_check"]

\* DELETE /api/roles/:id
rolesDelete(r) == [r EXCEPT !.pc = "rdel_users"]

\* new Date(str).getTime(), in half days since 1 January 2025 (UTC), of the
\* date strings the requests carry
Date(str) ==
    CASE str = "2025-01-01" -> 0
      [] str = "2025-03-31" -> 178
      [] str = "2025-04-01" -> 180
      [] str = "2025-04-01T12:00:00Z" -> 181
      [] str = "2025-06-30" -> 360

\* the value a DATE column keeps of the string: its day, in days since
\* 1 January 2025
date(str) == Date(str) \div 2

\* POST /api/quarters and PUT /api/quarters/:id up to the overlap query
quartersUpsert(r, pc) ==
    IF {"name", "startDate", "endDate"} \subseteq DOMAIN r.body
    THEN IF Date(r.body.startDate) >= Date(r.body.endDate)
         THEN [json(r, 400, "Start date must be before end date.")
                 EXCEPT !.pc = "done"]
         ELSE [r EXCEPT !.pc = pc]
    ELSE [json(r, 400,
               "Quarter name, start date, and end date are required.")
            EXCEPT !.pc = "done"]

\* next() into a handler that is not followed here: the request leaves the
\* model with the response unwritten
next(r) == [r EXCEPT !.pc = "done"]

\* what next() runs once the middleware of the route has let the request by
handler(r) ==
    CASE r.route = "GET /api/farmers" -> farmersGet(r)
      [] r.route = "POST /api/farmers" -> farmersPost(r)
      [] r.route = "PUT /api/farmers/:id" -> farmersPut(r)
      [] r.route = "DELETE /api/farmers/:id" -> farmersDelete(r)
      [] r.route = "PUT /api/users/:id" -> usersPut(r)
      [] r.route = "PUT /api/roles/:id" -> rolesPut(r)
      [] r.route = "GET /api/farmers/:id" -> farmerGet(r)
      [] r.route = "GET /api/projects" -> projectsGet(r)
      [] r.route = "GET /api/projects/:id" -> projectGet(r)
      [] OTHER -> next(r)

-----------------------------------------------------------------------------
\* Actions

\* POST requests admitted so far that have not inserted yet
PendingPosts ==
    Cardinality({t \in Slots : /\ req[t].route = "POST /api/farmers"
                               /\ req[t].pc \notin {"idle", "done"}})

\* The middleware stack of a route, run on a request that arrives: the
\* request as authenticateToken leaves it; when the gate calls next() a
\* guarded route has authorizePermission pending, any other its handler
stack(route, headers, input) ==
    LET auth == authenticateToken(headers)
        code == RequiredCode(route, auth.user.roleName)
        r0 == [Idle EXCEPT !.route = route,
                           !.headers = headers,
                           !.user = auth.user,
                           !.lookups = auth.lookups]
        r1 == [r0 EXCEPT !.id = input.id, !.uid = input.uid,
                         !.body = input.body,
                         !.code = code]
    IN IF ~auth.next
       THEN [json(r0, auth.status, auth.message) EXCEPT !.pc = "done"]
       ELSE IF route \in Guarded
       THEN [r1 EXCEPT !.pc = "authorizePermission"]
       ELSE handler(r1)

\* A request to one of the farmer, user and role routes arrives
Request(s) ==
    /\ req[s].pc = "idle"
    /\ \E route \in Routes, headers \in Headers :
       \E input \in Inputs(route) :
          /\ route = "POST /api/farmers" =>
                 nextFarmerId + PendingPosts <= MaxFarmers
          /\ req' = [req EXCEPT ![s] = stack(route, headers, input)]
    /\ UNCHANGED <<store, issued, tokens, now>>

\* authorizePermission(code) as the middleware of a guarded route
AuthorizePermission(s) ==
    LET r == req[s]
        granted == authorizePermission(r.user.userId, r.code)
    IN /\ r.pc = "authorizePermission"
       /\ req' = [req EXCEPT ![s] =
              IF granted THEN handler(decided(r, TRUE))
              ELSE [decided(deny(r), FALSE) EXCEPT !.pc = "done"]]
       /\ UNCHANGED <<store, issued, tokens, now>>

\* await authorizePermission(code)(req, res, () => {}) inside a handler:
\* whatever it decides, the handler goes on to pc
inline(r, pc) ==
    LET granted == authorizePermission(r.user.userId, r.code) IN
    [decided(IF granted THEN r ELSE deny(r), granted) EXCEPT !.pc = pc]

\* GET /api/farmers, one store call
FarmersGet(s) ==
    LET r == req[s] IN
    /\ r.pc \in {"get_project_users", "get_farmers"}
    /\ req' = [req EXCEPT ![s] =
          IF r.pc = "get_project_users"
          THEN LET projectIds == {pu.project_id :
                                    pu \in {x \in project_users :
                                              x.user_id = r.user.userId}}
                   r1 == [r EXCEPT !.lookups = @ + 1,
                                   !.projectIds = projectIds]
               IN IF projectIds = {} THEN respond(r1, 200, "[]")
                  ELSE [r1 EXCEPT !.pc = "get_farmers"]
          ELSE LET rows == {f \in DOMAIN farmers :
                              /\ farmers[f].exists
                              /\ \/ r.user.roleName = "Admin"
                                 \/ farmers[f].project_id \in r.projectIds}
               IN respond([r EXCEPT !.lookups = @ + 1, !.rows = rows],
                          200, "farmers")]
    /\ UNCHANGED <<store, issued, tokens, now>>

\* POST /api/farmers, one store call
FarmersPost(s) ==
    LET r == req[s] IN
    /\ r.pc \in {"post_project_users", "post_authorize", "post_insert"}
    /\ CASE r.pc = "post_project_users" ->
              /\ req' = [req EXCEPT ![s] =
                    IF projectUser(r.body.projectId, r.user.userId)
                    THEN [r EXCEPT !.lookups = @ + 1,
                                   !.pc = "post_authorize"]
                    ELSE respond([r EXCEPT !.lookups = @ + 1], 403,
                           "You can only add farmers to projects you are assigned to.")]
              /\ UNCHANGED <<farmers, nextFarmerId>>
         [] r.pc = "post_authorize" ->
              /\ req' = [req EXCEPT ![s] = inline(r, "post_insert")]
              /\ UNCHANGED <<farmers, nextFarmerId>>
         [] r.pc = "post_insert" ->
              /\ nextFarmerId <= MaxFarmers
              /\ farmers' = [farmers EXCEPT ![nextFarmerId] =
                               [exists |-> TRUE,
                                project_id |-> r.body.projectId,
                                full_name |-> r.body.fullName]]
              /\ nextFarmerId' = nextFarmerId + 1
              /\ req' = [req EXCEPT ![s] =
                    respond([r EXCEPT !.lookups = @ + 1, !.mutated = TRUE],
                            201, "Farmer record created successfully.")]
    /\ UNCHANGED <<users, roles, permissions, role_permissions,
                   project_users, quarters, issued, tokens, now>>

\* PUT /api/farmers/:id, one store call
FarmersPut(s) ==
    LET r == req[s]
        r1 == [r EXCEPT !.lookups = @ + 1]
    IN
    /\ r.pc \in {"put_existing", "put_project_users", "put_authorize",
                 "put_update"}
    /\ CASE r.pc = "put_existing" ->
              /\ req' = [req EXCEPT ![s] =
                    IF r.id \notin DOMAIN farmers \/ ~farmers[r.id].exists
                    THEN respond(r1, 404, "Farmer not found.")
                    ELSE LET currentProjectId == farmers[r.id].project_id
                             projectId == Field(r.body, "projectId", 0)
                             targetProjectId ==
                                 IF projectId # 0 THEN projectId
                                 ELSE currentProjectId
                         IN [r1 EXCEPT
                               !.currentProjectId = currentProjectId,
                               !.targetProjectId = targetProjectId,
                               !.pc = IF r.user.roleName # "Admin"
                                      THEN "put_project_users"
                                      ELSE "put_authorize"]]
              /\ UNCHANGED farmers
         [] r.pc = "put_project_users" ->
              /\ req' = [req EXCEPT ![s] =
                    IF projectUser(r.targetProjectId, r.user.userId)
                    THEN [r1 EXCEPT !.pc = "put_authorize"]
                    ELSE respond(r1, 403,
                           "You can only edit farmers in projects you are assigned to.")]
              /\ UNCHANGED farmers
         [] r.pc = "put_authorize" ->
              /\ req' = [req EXCEPT ![s] = inline(r, "put_update")]
              /\ UNCHANGED farmers
         [] r.pc = "put_update" ->
              IF r.id \in DOMAIN farmers /\ farmers[r.id].exists
              THEN /\ farmers' = [farmers EXCEPT ![r.id] =
                         [@ EXCEPT !.project_id = r.targetProjectId,
                                   !.full_name =
                                       Field(r.body, "fullName", @)]]
                   /\ req' = [req EXCEPT ![s] =
                         respond([r1 EXCEPT !.mutated = TRUE], 200,
                                 "Farmer record updated successfully.")]
              ELSE /\ req' = [req EXCEPT ![s] = catch(r1)]
                   /\ UNCHANGED farmers
    /\ UNCHANGED <<users, roles, permissions, role_permissions,
                   project_users, nextFarmerId, quarters, issued, tokens,
                   now>>

\* DELETE /api/farmers/:id, one store call
FarmersDelete(s) ==
    LET r == req[s]
        r1 == [r EXCEPT !.lookups = @ + 1]
    IN
    /\ r.pc \in {"del_existing", "del_project_users", "del_authorize",
                 "del_delete"}
    /\ CASE r.pc = "del_existing" ->
              /\ req' = [req EXCEPT ![s] =
                    IF r.id \notin DOMAIN farmers \/ ~farmers[r.id].exists
                    THEN respond(r1, 404, "Farmer not found.")
                    ELSE [r1 EXCEPT
                            !.currentProjectId = farmers[r.id].project_id,
                            !.pc = IF r.user.roleName # "Admin"
                                   THEN "del_project_users"
                                   ELSE "del_authorize"]]
              /\ UNCHANGED farmers
         [] r.pc = "del_project_users" ->
              /\ req' = [req EXCEPT ![s] =
                    IF projectUser(r.currentProjectId, r.user.userId)
                    THEN [r1 EXCEPT !.pc = "del_authorize"]
                    ELSE respond(r1, 403,
                           "You can only delete farmers from projects you are assigned to.")]
              /\ UNCHANGED farmers
         [] r.pc = "del_authorize" ->
              /\ req' = [req EXCEPT ![s] = inline(r, "del_delete")]
              /\ UNCHANGED farmers
         [] r.pc = "del_delete" ->
              /\ farmers' = [farmers EXCEPT ![r.id] = NoFarmer]
              /\ req' = [req EXCEPT ![s] =
                    respond([r1 EXCEPT !.mutated = TRUE], 200,
                            "Farmer record deleted successfully.")]
    /\ UNCHANGED <<users, roles, permissions, role_permissions,
                   project_users, nextFarmerId, quarters, issued, tokens,
                   now>>

\* PUT /api/users/:id, one store call
UsersPut(s) ==
    LET r == req[s]
        r1 == [r EXCEPT !.lookups = @ + 1]
        roleId == Field(r.body, "roleId", 0)
    IN
    /\ r.pc = "uput_update"
    /\ IF r.uid \in DOMAIN users /\ (roleId # 0 => roleId \in DOMAIN roles)
       THEN /\ users' = [users EXCEPT ![r.uid] =
                  [@ EXCEPT
                     !.role_id = IF roleId # 0 THEN roleId ELSE @,
                     !.activation_status =
                         Field(r.body, "activationStatus", @),
                     !.is_active = Field(r.body, "isActive", @)]]
            /\ req' = [req EXCEPT ![s] =
                  respond(r1, 200, "User updated successfully.")]
       ELSE /\ req' = [req EXCEPT ![s] = catch(r1)]
            /\ UNCHANGED users
    /\ UNCHANGED <<roles, permissions, role_permissions, project_users,
                   farmers, nextFarmerId, quarters, issued, tokens, now>>

\* PUT /api/roles/:id, one store call
RolesPut(s) ==
    LET r == req[s]
        r1 == [r EXCEPT !.lookups = @ + 1]
        permissionIds == Field(r.body, "permissionIds", {})
        rolePermissions == {[role_id |-> r.id, permission_id |-> i] :
                              i \in permissionIds}
    IN
    /\ r.pc \in {"rput_existing", "rput_update", "rput_delete",
                 "rput_insert"}
    /\ CASE r.pc = "rput_existing" ->
              /\ req' = [req EXCEPT ![s] =
                    IF \E i \in DOMAIN roles :
                          roles[i] = r.body.roleName /\ i # r.id
                    THEN respond(r1, 400,
                           "Another role with this name already exists.")
                    ELSE [r1 EXCEPT !.pc = "rput_update"]]
              /\ UNCHANGED <<roles, role_permissions>>
         [] r.pc = "rput_update" ->
              IF /\ r.id \in DOMAIN roles
                 /\ \A i \in DOMAIN roles :
                       roles[i] = r.body.roleName => i = r.id
              THEN /\ roles' = [roles EXCEPT ![r.id] = r.body.roleName]
                   /\ req' = [req EXCEPT ![s] =
                         [r1 EXCEPT !.pc = "rput_delete"]]
                   /\ UNCHANGED role_permissions
              ELSE /\ req' = [req EXCEPT ![s] = catch(r1)]
                   /\ UNCHANGED <<roles, role_permissions>>
         [] r.pc = "rput_delete" ->
              /\ role_permissions' =
                    {rp \in role_permissions : rp.role_id # r.id}
              /\ req' = [req EXCEPT ![s] =
                    IF permissionIds = {}
                    THEN respond(r1, 200, "Role updated successfully.")
                    ELSE [r1 EXCEPT !.pc = "rput_insert"]]
              /\ UNCHANGED roles
         [] r.pc = "rput_insert" ->
              IF /\ permissionIds \subseteq DOMAIN permissions
                 /\ rolePermissions \cap role_permissions = {}
              THEN /\ role_permissions' =
                         role_permissions \cup rolePermissions
                   /\ req' = [req EXCEPT ![s] =
                         respond(r1, 200, "Role updated successfully.")]
                   /\ UNCHANGED roles
              ELSE /\ req' = [req EXCEPT ![s] = catch(r1)]
                   /\ UNCHANGED <<roles, role_permissions>>
    /\ UNCHANGED <<users, permissions, project_users, farmers,
                   nextFarmerId, quarters, issued, tokens, now>>

\* GET /api/farmers/:id, one store call.  query.single() gives an error
\* when no row has the id, and the handler throws it
FarmerGet(s) ==
    LET r == req[s]
        r1 == [r EXCEPT !.lookups = @ + 1]
    IN
    /\ r.pc \in {"fget_farmer", "fget_project_users"}
    /\ req' = [req EXCEPT ![s] =
          IF r.pc = "fget_farmer"
          THEN IF r.id \notin DOMAIN farmers \/ ~farmers[r.id].exists
               THEN catch(r1)
               ELSE LET r2 == [r1 EXCEPT !.currentProjectId =
                                             farmers[r.id].project_id]
                    IN IF r.user.roleName # "Admin"
                       THEN [r2 EXCEPT !.pc = "fget_project_users"]
                       ELSE respond([r2 EXCEPT !.rows = {r.id}], 200,
                                    "farmer")
          ELSE IF projectUser(r.currentProjectId, r.user.userId)
               THEN respond([r1 EXCEPT !.rows = {r.id}], 200, "farmer")
               ELSE respond(r1, 403, "Access denied to this farmer record.")]
    /\ UNCHANGED <<store, issued, tokens, now>>

\* GET /api/projects, one store call.  For a token whose role name is not
\* 'Admin' the query carries .filter('project_users.user_id', 'eq', userId):
\* a filter on an embedded resource, which PostgREST applies to the embedded
\* rows (assigned_users) and not to the projects, so every project is
\* returned whoever asks
ProjectsGet(s) ==
    LET r == req[s] IN
    /\ r.pc = "pget_projects"
    /\ req' = [req EXCEPT ![s] =
          respond([r EXCEPT !.lookups = @ + 1, !.rows = ProjectIds],
                  200, "projects")]
    /\ UNCHANGED <<store, issued, tokens, now>>

\* GET /api/projects/:id, one store call
ProjectGet(s) ==
    LET r == req[s]
        r1 == [r EXCEPT !.lookups = @ + 1]
    IN
    /\ r.pc \in {"pgid_project_users", "pgid_project"}
    /\ req' = [req EXCEPT ![s] =
          IF r.pc = "pgid_project_users"
          THEN IF projectUser(r.id, r.user.userId)
               THEN [r1 EXCEPT !.pc = "pgid_project"]
               ELSE respond(r1, 403, "Access denied to this project.")
          ELSE IF r.id \notin ProjectIds THEN catch(r1)
               ELSE respond([r1 EXCEPT !.rows = {r.id}], 200, "project")]
    /\ UNCHANGED <<store, issued, tokens, now>>

\* The response has gone out; the slot is free for the next request
Retire(s) ==
    /\ req[s].pc = "done"
    /\ req' = [req EXCEPT ![s] = Idle]
    /\ UNCHANGED <<store, issued, tokens, now>>

\* An hour passes
Tick ==
    /\ now < MaxClock
    /\ now' = now + 1
    /\ UNCHANGED <<store, issued, tokens, req>>

Next ==
    \/ \E s \in Slots : Request(s)
    \/ \E s \in Slots : AuthorizePermission(s)
    \/ \E s \in Slots : FarmersGet(s)
    \/ \E s \in Slots : FarmersPost(s)
    \/ \E s \in Slots : FarmersPut(s)
    \/ \E s \in Slots : FarmersDelete(s)
    \/ \E s \in Slots : UsersPut(s)
    \/ \E s \in Slots : RolesPut(s)
    \/ \E s \in Slots : Retire(s)
    \/ Tick

Spec == Init /\ [][Next]_vars

-----------------------------------------------------------------------------
\* The single-entity reads and the project list, with the user update that
\* reassigns roles

ScopeRoutes ==
    {"GET /api/farmers/:id", "GET /api/projects", "GET /api/projects/:id",
     "PUT /api/users/:id"}

\* A request to one of the scoped read routes (or a user update) arrives
ScopeRequest(s) ==
    /\ req[s].pc = "idle"
    /\ \E route \in ScopeRoutes, headers \in Headers :
       \E input \in Inputs(route) :
          req' = [req EXCEPT ![s] = stack(route, headers, input)]
    /\ UNCHANGED <<store, issued, tokens, now>>

ScopeNext ==
    \/ \E s \in Slots : ScopeRequest(s)
    \/ \E s \in Slots : AuthorizePermission(s)
    \/ \E s \in Slots : FarmerGet(s)
    \/ \E s \in Slots : ProjectsGet(s)
    \/ \E s \in Slots : ProjectGet(s)
    \/ \E s \in Slots : UsersPut(s)
    \/ \E s \in Slots : Retire(s)
    \/ Tick

ScopeSpec == Init /\ [][ScopeNext]_vars

-----------------------------------------------------------------------------
\* Login with a one-time password: POST /api/auth/login and
\* POST /api/auth/verify-otp, public routes.  issued is the log of what the
\* server has issued to each user: the OTP mails handed to the transporter
\* and the session tokens sent in a 200 of verify-otp.

AuthSlots == {1, 2}

\* const generateOTP = () =>
\*     Math.floor(100000 + Math.random() * 900000).toString();
\* draw stands for Math.floor(Math.random() * 900000)
generateOTP(draw) == ToString(100000 + draw)

\* the draws of Math.random() of the model: the least and the greatest
Draws == {0, 899999}

AuthRoutes == {"POST /api/auth/login", "POST /api/auth/verify-otp"}

\* req.body of a request to the route
AuthInputs(route) ==
    IF route = "POST /api/auth/login"
    THEN {[email |-> e, password |-> p] :
            e \in {Email("u1"), Email("u3"), "nobody@fors"},
            p \in {"secret", "wrong"}}
         \cup {[email |-> Email("u1")]}
    ELSE {[email |-> e, otp |-> generateOTP(d)] :
            e \in {Email("u1"), "nobody@fors"}, d \in Draws}
         \cup {[email |-> Email("u1")]}

\* .from('users').select(...).eq('email', email).single(): the ids of the
\* rows with this address (email is UNIQUE: at most one)
byEmail(email) == {u \in DOMAIN users : users[u].email = email}

\* .update({ otp: otp }).eq('id', user.id), keeping a code that is pending
updateOtp_keepPending(row, otp) ==
    IF row.otp # "null" THEN row ELSE [row EXCEPT !.otp = otp]

\* .from('users').update({ otp: otp }).eq('id', user.id)
updateOtp(row, otp) == [row EXCEPT !.otp = otp]

\* the callback of sendMail failing the request when the send failed
sendMailCallback_fails(r, error) ==
    IF error
    THEN [r EXCEPT !.mail = "failed", !.pc = "done",
                   !.res = [status |-> 500,
                            message |-> "Server error during login.",
                            detail |-> ""]]
    ELSE [r EXCEPT !.mail = "sent", !.pc = "done"]

\* transporter.sendMail(mailOptions, (error, info) => { ... }): the callback
\* writes to the console and nothing else
sendMailCallback(r, error) ==
    [r EXCEPT !.mail = IF error THEN "failed" ELSE "sent", !.pc = "done"]

\* the comparison of verify-otp letting any code pass when none is pending
invalidOtp_nonePending(user, otp) == user.otp # "null" /\ user.otp # otp

\* if (user.otp !== otp): the stored code, or null, against the submitted one
invalidOtp(user, otp) == user.otp # otp

\* POST /api/auth/login, up to its first store call
loginPost(r) ==
    IF "email" \notin DOMAIN r.body \/ "password" \notin DOMAIN r.body
    THEN [json(r, 400, "Please enter all fields.") EXCEPT !.pc = "done"]
    ELSE [r EXCEPT !.pc = "login_user"]

\* POST /api/auth/verify-otp, up to its first store call
verifyOtpPost(r) ==
    IF "email" \notin DOMAIN r.body \/ "otp" \notin DOMAIN r.body
    THEN [json(r, 400, "Email and OTP are required.") EXCEPT !.pc = "done"]
    ELSE [r EXCEPT !.pc = "verify_user"]

\* what has been issued so far, and the requests that may still issue
Issued == LET RECURSIVE sum(_)
              sum(S) == IF S = {} THEN 0
                        ELSE LET u == CHOOSE x \in S : TRUE
                             IN Len(issued[u]) + sum(S \ {u})
          IN sum(UserIds)
InFlight ==
    Cardinality({t \in AuthSlots : req[t].pc \in {"login_user",
                     "login_update", "verify_user", "verify_clear"}})

\* A request to one of the two public routes arrives
AuthRequest(s) ==
    /\ req[s].pc = "idle"
    /\ Issued + InFlight < MaxIssued
    /\ \E route \in AuthRoutes : \E body \in AuthInputs(route) :
          LET r == [Idle EXCEPT !.route = route, !.body = body] IN
          req' = [req EXCEPT ![s] =
                    IF route = "POST /api/auth/login" THEN loginPost(r)
                    ELSE verifyOtpPost(r)]
    /\ UNCHANGED <<store, issued, tokens, now>>

\* POST /api/auth/login, one store call
Login(s) ==
    LET r == req[s]
        r1 == [r EXCEPT !.lookups = @ + 1]
    IN
    /\ r.pc \in {"login_user", "login_update"}
    /\ IF r.pc = "login_user"
       THEN /\ \E draw \in Draws :
               req' = [req EXCEPT ![s] =
                  IF byEmail(r.body.email) = {}
                  THEN respond(r1, 400, "Invalid credentials.")
                  ELSE LET id == CHOOSE u \in byEmail(r.body.email) : TRUE
                           user == users[id]
                       IN IF ~bcrypt_compare(r.body.password,
                                             user.password_hash)
                          THEN respond(r1, 400, "Invalid credentials.")
                          ELSE IF ~user.activation_status \/ ~user.is_active
                          THEN respond(r1, 403,
                                 "Your account is inactive. Please contact an administrator.")
                          ELSE [r1 EXCEPT !.uid = id,
                                          !.otp = generateOTP(draw),
                                          !.pc = "login_update"]]
            /\ UNCHANGED <<users, issued>>
       ELSE /\ users' = [users EXCEPT ![r.uid] = updateOtp(@, r.otp)]
            /\ issued' = [issued EXCEPT ![r.uid] =
                            Append(@, [ev |-> "otp", otp |-> r.otp])]
            /\ req' = [req EXCEPT ![s] =
                  [json([r1 EXCEPT !.mutated = TRUE, !.mail = "sending"],
                        200,
                        "OTP sent to your email. Please verify to complete login.")
                     EXCEPT !.pc = "login_mail"]]
    /\ UNCHANGED <<roles, permissions, role_permissions, project_users,
                   farmers, nextFarmerId, quarters, tokens, now>>

\* The transporter calls back, with or without an error, after the 200 of
\* the login has been written
MailCallback(s) ==
    /\ req[s].pc = "login_mail"
    /\ \E error \in BOOLEAN :
          req' = [req EXCEPT ![s] = sendMailCallback(req[s], error)]
    /\ UNCHANGED <<store, issued, tokens, now>>

\* POST /api/auth/verify-otp, one store call.  The update that clears the
\* code may fail in the store: the handler logs clearOtpError and goes on
VerifyOtp(s) ==
    LET r == req[s]
        r1 == [r EXCEPT !.lookups = @ + 1]
    IN
    /\ r.pc \in {"verify_user", "verify_clear"}
    /\ IF r.pc = "verify_user"
       THEN /\ req' = [req EXCEPT ![s] =
                  IF byEmail(r.body.email) = {}
                  THEN respond(r1, 400, "Invalid email or OTP.")
                  ELSE LET id == CHOOSE u \in byEmail(r.body.email) : TRUE
                           user == users[id]
                       IN IF invalidOtp(user, r.body.otp)
                          THEN respond(r1, 400, "Invalid OTP.")
                          ELSE [r1 EXCEPT
                                  !.uid = id,
                                  !.user = [userId |-> id,
                                            roleName |-> roles[user.role_id]],
                                  !.pc = "verify_clear"]]
            /\ UNCHANGED <<users, issued, tokens>>
       ELSE \E clearOtpError \in BOOLEAN :
            LET token == jwt_sign(r.user.userId, r.user.roleName, now) IN
            /\ users' = IF clearOtpError THEN users
                        ELSE [users EXCEPT ![r.uid] = updateOtp(@, "null")]
            /\ issued' = [issued EXCEPT ![r.uid] =
                            Append(@, [ev |-> "token", otp |-> r.body.otp])]
            /\ tokens' = [tokens EXCEPT ![r.uid] = token]
            /\ req' = [req EXCEPT ![s] =
                  respond([r1 EXCEPT !.token = token], 200,
                          "OTP verified successfully.")]
    /\ UNCHANGED <<roles, permissions, role_permissions, project_users,
                   farmers, nextFarmerId, quarters, now>>

\* The store of Init with u3 deactivated by an administrator, before anyone
\* has logged in
AuthInit ==
    /\ users = [u \in UserIds |->
                  [role_id |-> IF u = "u2" THEN 1 ELSE 2,
                   is_active |-> TRUE, activation_status |-> u # "u3",
                   otp |-> "null", email |-> Email(u),
                   password_hash |-> bcrypt_hash(Password(u))]]
    /\ roles = [i \in RoleIds |-> IF i = 1 THEN "Admin" ELSE "User"]
    /\ permissions = [i \in DOMAIN PermissionCodes |-> PermissionCodes[i]]
    /\ role_permissions = SeedLinks
    /\ project_users = {[project_id |-> 1, user_id |-> "u1"]}
    /\ farmers = [f \in FarmerIds |-> NoFarmer]
    /\ nextFarmerId = 1
    /\ quarters = {}
    /\ issued = [u \in UserIds |-> <<>>]
    /\ now = 0
    /\ tokens = [u \in UserIds |-> NoToken]
    /\ req = [s \in AuthSlots |-> Idle]

AuthNext ==
    \/ \E s \in AuthSlots : AuthRequest(s)
    \/ \E s \in AuthSlots : Login(s)
    \/ \E s \in AuthSlots : MailCallback(s)
    \/ \E s \in AuthSlots : VerifyOtp(s)
    \/ \E s \in AuthSlots : Retire(s)

AuthSpec == AuthInit /\ [][AuthNext]_vars

-----------------------------------------------------------------------------
\* The login flow of u1 while the Admin changes the account of u1 with
\* PUT /api/users/:id

\* req.params.id and req.body of the Admin's request
GateInputs ==
    {[id |-> 0, uid |-> "u1", body |-> [isActive |-> x]] : x \in BOOLEAN}

GateRequest(s) ==
    /\ req[s].pc = "idle"
    /\ \E input \in GateInputs :
          req' = [req EXCEPT ![s] =
                    stack("PUT /api/users/:id",
                          [authorization |-> <<Bearer, SP, tokens["u2"]>>],
                          input)]
    /\ UNCHANGED <<store, issued, tokens, now>>

\* AuthInit after the Admin has obtained a token
GateInit ==
    /\ users = [u \in UserIds |->
                  [role_id |-> IF u = "u2" THEN 1 ELSE 2,
                   is_active |-> TRUE, activation_status |-> u # "u3",
                   otp |-> "null", email |-> Email(u),
                   password_hash |-> bcrypt_hash(Password(u))]]
    /\ roles = [i \in RoleIds |-> IF i = 1 THEN "Admin" ELSE "User"]
    /\ permissions = [i \in DOMAIN PermissionCodes |-> PermissionCodes[i]]
    /\ role_permissions = SeedLinks
    /\ project_users = {[project_id |-> 1, user_id |-> "u1"]}
    /\ farmers = [f \in FarmerIds |-> NoFarmer]
    /\ nextFarmerId = 1
    /\ quarters = {}
    /\ issued = [u \in UserIds |-> <<>>]
    /\ now = 0
    /\ tokens = [u \in UserIds |->
                   IF u = "u2" THEN jwt_sign(u, roles[users[u].role_id], 0)
                   ELSE NoToken]
    /\ req = [s \in AuthSlots |-> Idle]

GateNext ==
    \/ \E s \in AuthSlots : AuthRequest(s)
    \/ \E s \in AuthSlots : Login(s)
    \/ \E s \in AuthSlots : MailCallback(s)
    \/ \E s \in AuthSlots : VerifyOtp(s)
    \/ \E s \in AuthSlots : GateRequest(s)
    \/ \E s \in AuthSlots : AuthorizePermission(s)
    \/ \E s \in AuthSlots : UsersPut(s)
    \/ \E s \in AuthSlots : Retire(s)

GateSpec == GateInit /\ [][GateNext]_vars

-----------------------------------------------------------------------------
\* The login flow next to PUT /api/users/:id and PUT /api/roles/:id, sent by
\* the Admin u2 and by the User u1

FrameRoutes == {"PUT /api/users/:id", "PUT /api/roles/:id"}

\* req.params.id and req.body: a user update that deactivates u1 or
\* activates u3, and a role update that gives the role User the permission
\* EDIT_USERS alone
FrameInputs(route) ==
    IF route = "PUT /api/users/:id"
    THEN {[id |-> 0, uid |-> "u1", body |-> [isActive |-> FALSE]],
          [id |-> 0, uid |-> "u3", body |-> [activationStatus |-> TRUE]]}
    ELSE {[id |-> 2, uid |-> "",
           body |-> [roleName |-> "User",
                     permissionIds |-> {PermissionId("EDIT_USERS")}]]}

FrameRequest(s) ==
    /\ req[s].pc = "idle"
    /\ \E route \in FrameRoutes, u \in {"u1", "u2"} :
       \E input \in FrameInputs(route) :
          req' = [req EXCEPT ![s] =
                    stack(route,
                          [authorization |-> <<Bearer, SP, tokens[u]>>],
                          input)]
    /\ UNCHANGED <<store, issued, tokens, now>>

\* AuthInit after every user has obtained a token
FrameInit ==
    /\ users = [u \in UserIds |->
                  [role_id |-> IF u = "u2" THEN 1 ELSE 2,
                   is_active |-> TRUE, activation_status |-> u # "u3",
                   otp |-> "null", email |-> Email(u),
                   password_hash |-> bcrypt_hash(Password(u))]]
    /\ roles = [i \in RoleIds |-> IF i = 1 THEN "Admin" ELSE "User"]
    /\ permissions = [i \in DOMAIN PermissionCodes |-> PermissionCodes[i]]
    /\ role_permissions = SeedLinks
    /\ project_users = {[project_id |-> 1, user_id |-> "u1"]}
    /\ farmers = [f \in FarmerIds |-> NoFarmer]
    /\ nextFarmerId = 1
    /\ quarters = {}
    /\ issued = [u \in UserIds |-> <<>>]
    /\ now = 0
    /\ tokens = [u \in UserIds |->
                   jwt_sign(u, roles[users[u].role_id], 0)]
    /\ req = [s \in AuthSlots |-> Idle]

\* one connection carries the login flow, the other the updates
FrameNext ==
    \/ \E s \in {1} : AuthRequest(s)
    \/ \E s \in {1} : Login(s)
    \/ \E s \in {1} : MailCallback(s)
    \/ \E s \in {1} : VerifyOtp(s)
    \/ \E s \in {2} : FrameRequest(s)
    \/ \E s \in {2} : AuthorizePermission(s)
    \/ \E s \in {2} : UsersPut(s)
    \/ \E s \in {2} : RolesPut(s)
    \/ \E s \in AuthSlots : Retire(s)

FrameSpec == FrameInit /\ [][FrameNext]_vars

-----------------------------------------------------------------------------
\* The Permission Resolver on the README's seed in full: every permission of
\* the seed, each linked to Admin, eight of them to User, and a request to
\* each route that names authorizePermission(code) as its middleware

ReadmeCodes ==
    <<"VIEW_DASHBOARD", "MANAGE_USERS", "ADD_USERS", "EDIT_USERS",
      "DELETE_USERS", "VIEW_ROLES", "ADD_ROLES", "EDIT_ROLES", "DELETE_ROLES",
      "VIEW_PERMISSIONS", "ADD_PERMISSIONS", "EDIT_PERMISSIONS",
      "DELETE_PERMISSIONS", "VIEW_PROJECTS", "CREATE_PROJECTS",
      "EDIT_PROJECTS", "DELETE_PROJECTS", "VIEW_FARMER_RECORDS",
      "ADD_FARMER_RECORDS", "EDIT_FARMER_RECORDS", "DELETE_FARMER_RECORDS",
      "VIEW_FARMER_TYPES", "ADD_FARMER_TYPES", "EDIT_FARMER_TYPES",
      "DELETE_FARMER_TYPES", "VIEW_QUARTERS", "ADD_QUARTERS",
      "EDIT_QUARTERS", "DELETE_QUARTERS", "INTERNAL_CHAT",
      "SHARE_DEMO_LINKS", "ANALYZE_DATA", "ANALYZE_PROJECT_DATA">>

PermissionIdOf(code) ==
    CHOOSE i \in DOMAIN ReadmeCodes : ReadmeCodes[i] = code

ReadmeLinks ==
    {[role_id |-> 1, permission_id |-> i] : i \in DOMAIN ReadmeCodes}
    \cup {[role_id |-> 2, permission_id |-> i] :
            i \in {j \in DOMAIN ReadmeCodes :
                     ReadmeCodes[j] \in
                        {"VIEW_DASHBOARD", "VIEW_PROJECTS",
                         "VIEW_FARMER_RECORDS", "ADD_FARMER_RECORDS",
                         "EDIT_FARMER_RECORDS", "INTERNAL_CHAT",
                         "SHARE_DEMO_LINKS", "ANALYZE_PROJECT_DATA"}}}

SeedInit ==
    /\ users = [u \in UserIds |->
                  [role_id |-> IF u = "u2" THEN 1 ELSE 2,
                   is_active |-> TRUE, activation_status |-> TRUE,
                   otp |-> "null", email |-> Email(u),
                   password_hash |-> bcrypt_hash(Password(u))]]
    /\ roles = [i \in RoleIds |-> IF i = 1 THEN "Admin" ELSE "User"]
    /\ permissions = [i \in DOMAIN ReadmeCodes |-> ReadmeCodes[i]]
    /\ role_permissions = ReadmeLinks
    /\ project_users = {[project_id |-> 1, user_id |-> "u1"]}
    /\ farmers = [f \in FarmerIds |-> NoFarmer]
    /\ nextFarmerId = 1
    /\ quarters = {}
    /\ issued = [u \in UserIds |-> <<>>]
    /\ now = 0
    /\ tokens = [u \in UserIds |->
                   jwt_sign(u, roles[users[u].role_id], 0)]
    /\ req = [s \in Slots |-> Idle]

\* A request to a route guarded by authorizePermission arrives; the handlers
\* behind the resolver are not followed
SeedRequest(s) ==
    /\ req[s].pc = "idle"
    /\ \E route \in Guarded, headers \in Headers :
          req' = [req EXCEPT ![s] =
                    stack(route, headers,
                          [id |-> 0, uid |-> "", body |-> Empty])]
    /\ UNCHANGED <<store, issued, tokens, now>>

SeedNext ==
    \/ \E s \in Slots : SeedRequest(s)
    \/ \E s \in Slots : AuthorizePermission(s)
    \/ \E s \in Slots : Retire(s)

SeedSpec == SeedInit /\ [][SeedNext]_vars

-----------------------------------------------------------------------------
\* Administration of roles and permissions by two concurrent requests of
\* the Admin: POST /api/roles, PUT /api/roles/:id and
\* DELETE /api/permissions/:id

AdminSlots == {1, 2}

\* what next() runs on the administration routes
adminHandler(r) ==
    CASE r.route = "POST /api/roles" -> rolesPost(r)
      [] r.route = "PUT /api/roles/:id" -> rolesPut(r)
      [] r.route = "DELETE /api/permissions/:id" -> permissionsDelete(r)
      [] r.route = "DELETE /api/roles/:id" -> rolesDelete(r)
      [] r.route = "POST /api/quarters" -> quartersUpsert(r, "qpost_overlap")
      [] r.route = "PUT /api/quarters/:id" ->
            quartersUpsert(r, "qput_overlap")

\* the id the identity column of roles gives the next row (no role is
\* deleted on these routes)
nextRoleId == Cardinality(DOMAIN roles) + 1

\* the permission an administrator has added to the seed with
\* POST /api/permissions: linked to no role yet
Added == Len(ReadmeCodes) + 1

\* a seeded permission no administration route asks the resolver for
Seeded == PermissionIdOf("ANALYZE_PROJECT_DATA")

AdminRoutes ==
    {"POST /api/roles", "PUT /api/roles/:id", "DELETE /api/permissions/:id"}

\* req.params.id and req.body of a request to the route
AdminInputs(route) ==
    CASE route = "POST /api/roles" ->
            {[id |-> 0, uid |-> "", body |-> b] :
               b \in {[roleName |-> "Admin"], [roleName |-> "Manager"],
                      [roleName |-> "Manager", permissionIds |-> {Added}]}}
      [] route = "PUT /api/roles/:id" ->
            {[id |-> 2, uid |-> "", body |-> b] :
               b \in {[roleName |-> "User"], [roleName |-> "Manager"],
                      [roleName |-> "User", permissionIds |-> {Added}],
                      [roleName |-> "User", permissionIds |-> {Seeded}]}}
      [] route = "DELETE /api/permissions/:id" ->
            {[id |-> p, uid |-> "", body |-> Empty] : p \in {Seeded, Added}}

\* A request of the Admin to one of the administration routes arrives and
\* runs authenticateToken
AdminRequest(s) ==
    /\ req[s].pc = "idle"
    /\ \E route \in AdminRoutes : \E input \in AdminInputs(route) :
          req' = [req EXCEPT ![s] =
                    stack(route,
                          [authorization |-> <<Bearer, SP, tokens["u2"]>>],
                          input)]
    /\ UNCHANGED <<store, issued, tokens, now>>

\* authorizePermission(code) as the middleware of an administration route
AdminAuthorize(s) ==
    LET r == req[s]
        granted == authorizePermission(r.user.userId, r.code)
    IN /\ r.pc = "authorizePermission"
       /\ req' = [req EXCEPT ![s] =
              IF granted THEN adminHandler(decided(r, TRUE))
              ELSE [decided(deny(r), FALSE) EXCEPT !.pc = "done"]]
       /\ UNCHANGED <<store, issued, tokens, now>>

\* POST /api/roles, one store call.  role_name is UNIQUE and
\* role_permissions.permission_id REFERENCES permissions(id): an insert that
\* breaks either gives an error, which the handler throws
RolesPost(s) ==
    LET r == req[s]
        r1 == [r EXCEPT !.lookups = @ + 1]
        permissionIds == Field(r.body, "permissionIds", {})
        rolePermissions == {[role_id |-> r.id, permission_id |-> i] :
                              i \in permissionIds}
    IN
    /\ r.pc \in {"rpost_existing", "rpost_insert", "rpost_links"}
    /\ CASE r.pc = "rpost_existing" ->
              /\ req' = [req EXCEPT ![s] =
                    IF \E i \in DOMAIN roles : roles[i] = r.body.roleName
                    THEN respond(r1, 400,
                           "Role with this name already exists.")
                    ELSE [r1 EXCEPT !.pc = "rpost_insert"]]
              /\ UNCHANGED <<roles, role_permissions>>
         [] r.pc = "rpost_insert" ->
              IF \A i \in DOMAIN roles : roles[i] # r.body.roleName
              THEN /\ roles' = [i \in DOMAIN roles \cup {nextRoleId} |->
                                  IF i \in DOMAIN roles THEN roles[i]
                                  ELSE r.body.roleName]
                   /\ req' = [req EXCEPT ![s] =
                         IF permissionIds = {}
                         THEN respond([r1 EXCEPT !.id = nextRoleId,
                                                 !.mutated = TRUE],
                                      201, "Role created successfully.")
                         ELSE [r1 EXCEPT !.id = nextRoleId,
                                         !.mutated = TRUE,
                                         !.pc = "rpost_links"]]
                   /\ UNCHANGED role_permissions
              ELSE /\ req' = [req EXCEPT ![s] = catch(r1)]
                   /\ UNCHANGED <<roles, role_permissions>>
         [] r.pc = "rpost_links" ->
              IF permissionIds \subseteq DOMAIN permissions
              THEN /\ role_permissions' =
                         role_permissions \cup rolePermissions
                   /\ req' = [req EXCEPT ![s] =
                         respond(r1, 201, "Role created successfully.")]
                   /\ UNCHANGED roles
              ELSE /\ req' = [req EXCEPT ![s] = catch(r1)]
                   /\ UNCHANGED <<roles, role_permissions>>
    /\ UNCHANGED <<users, permissions, project_users, farmers,
                   nextFarmerId, quarters, issued, tokens, now>>

\* DELETE /api/permissions/:id, one store call.  The lookup of the links
\* may fail in the store: rpCheckError is never looked at, and with
\* rolePermissions null the handler goes on to the delete.  The delete
\* takes the links of the permission with it (ON DELETE CASCADE)
PermissionsDelete(s) ==
    LET r == req[s]
        r1 == [r EXCEPT !.lookups = @ + 1]
    IN
    /\ r.pc \in {"pdel_check", "pdel_delete"}
    /\ IF r.pc = "pdel_check"
       THEN /\ \E rpCheckError \in BOOLEAN :
               LET rolePermissions ==
                       IF rpCheckError THEN {}
                       ELSE {rp \in role_permissions :
                               rp.permission_id = r.id}
               IN req' = [req EXCEPT ![s] =
                     IF rolePermissions # {}
                     THEN respond(r1, 400,
                            "Cannot delete permission: It is currently assigned to one or more roles.")
                     ELSE [r1 EXCEPT !.pc = "pdel_delete"]]
            /\ UNCHANGED <<permissions, role_permissions>>
       ELSE /\ permissions' = [p \in DOMAIN permissions \ {r.id} |->
                                 permissions[p]]
            /\ role_permissions' =
                  {rp \in role_permissions : rp.permission_id # r.id}
            /\ req' = [req EXCEPT ![s] =
                  respond([r1 EXCEPT !.mutated = TRUE], 200,
                          "Permission deleted successfully.")]
    /\ UNCHANGED <<users, roles, project_users, farmers, nextFarmerId,
                   quarters, issued, tokens, now>>

\* The README's seed and the added permission
AdminInit ==
    /\ users = [u \in UserIds |->
                  [role_id |-> IF u = "u2" THEN 1 ELSE 2,
                   is_active |-> TRUE, activation_status |-> TRUE,
                   otp |-> "null", email |-> Email(u),
                   password_hash |-> bcrypt_hash(Password(u))]]
    /\ roles = [i \in RoleIds |-> IF i = 1 THEN "Admin" ELSE "User"]
    /\ permissions = [i \in DOMAIN ReadmeCodes \cup {Added} |->
                        IF i = Added THEN "CREATE_FARMER_RECORDS"
                        ELSE ReadmeCodes[i]]
    /\ role_permissions = ReadmeLinks
    /\ project_users = {[project_id |-> 1, user_id |-> "u1"]}
    /\ farmers = [f \in FarmerIds |-> NoFarmer]
    /\ nextFarmerId = 1
    /\ quarters = {}
    /\ issued = [u \in UserIds |-> <<>>]
    /\ now = 0
    /\ tokens = [u \in UserIds |->
                   jwt_sign(u, roles[users[u].role_id], 0)]
    /\ req = [s \in AdminSlots |-> Idle]

AdminNext ==
    \/ \E s \in AdminSlots : AdminRequest(s)
    \/ \E s \in AdminSlots : AdminAuthorize(s)
    \/ \E s \in AdminSlots : RolesPost(s)
    \/ \E s \in AdminSlots : RolesPut(s)
    \/ \E s \in AdminSlots : PermissionsDelete(s)
    \/ \E s \in AdminSlots : Retire(s)

AdminSpec == AdminInit /\ [][AdminNext]_vars

-----------------------------------------------------------------------------
\* Quarters: POST /api/quarters and PUT /api/quarters/:id by two concurrent
\* requests of the Admin

QuarterRoutes == {"POST /api/quarters", "PUT /api/quarters/:id"}

\* the req.body of a quarter request
Quarter(startDate, endDate) ==
    [name |-> "Q", startDate |-> startDate, endDate |-> endDate]

QuarterBodies ==
    {Quarter("2025-01-01", "2025-03-31"),
     Quarter("2025-03-31", "2025-06-30"),
     Quarter("2025-04-01", "2025-06-30"),
     Quarter("2025-03-31", "2025-01-01"),
     Quarter("2025-04-01", "2025-04-01T12:00:00Z"),
     [name |-> "Q", startDate |-> "2025-01-01"]}

QuarterInputs(route) ==
    IF route = "POST /api/quarters"
    THEN {[id |-> 0, uid |-> "", body |-> b] : b \in QuarterBodies}
    ELSE {[id |-> 1, uid |-> "", body |-> b] : b \in QuarterBodies}

\* the rows the overlap query returns:
\* and(start_date.lte.endDate, end_date.gte.startDate)
overlappingQuarters(rows, startDate, endDate) ==
    {q \in rows : /\ q.start_date <= date(endDate)
                  /\ q.end_date >= date(startDate)}

\* the id the identity column of quarters gives the next row (no quarter is
\* deleted on these routes)
nextQuarterId == Cardinality(quarters) + 1

QuarterRequest(s) ==
    /\ req[s].pc = "idle"
    /\ \E route \in QuarterRoutes : \E input \in QuarterInputs(route) :
          req' = [req EXCEPT ![s] =
                    stack(route,
                          [authorization |-> <<Bearer, SP, tokens["u2"]>>],
                          input)]
    /\ UNCHANGED <<store, issued, tokens, now>>

\* POST /api/quarters, one store call
QuartersPost(s) ==
    LET r == req[s]
        r1 == [r EXCEPT !.lookups = @ + 1]
    IN
    /\ r.pc \in {"qpost_overlap", "qpost_insert"}
    /\ IF r.pc = "qpost_overlap"
       THEN /\ req' = [req EXCEPT ![s] =
                  IF overlappingQuarters(quarters, r.body.startDate,
                                         r.body.endDate) # {}
                  THEN respond(r1, 400,
                         "New quarter overlaps with an existing quarter.")
                  ELSE [r1 EXCEPT !.pc = "qpost_insert"]]
            /\ UNCHANGED quarters
       ELSE /\ quarters' = quarters \cup
                  {[id |-> nextQuarterId, name |-> r.body.name,
                    start_date |-> date(r.body.startDate),
                    end_date |-> date(r.body.endDate)]}
            /\ req' = [req EXCEPT ![s] =
                  respond([r1 EXCEPT !.id = nextQuarterId,
                                     !.mutated = TRUE],
                          201, "Quarter created successfully.")]
    /\ UNCHANGED <<users, roles, permissions, role_permissions,
                   project_users, farmers, nextFarmerId, issued, tokens,
                   now>>

\* PUT /api/quarters/:id, one store call.  update().single() gives an error
\* when no row has the id, and the handler throws it
QuartersPut(s) ==
    LET r == req[s]
        r1 == [r EXCEPT !.lookups = @ + 1]
    IN
    /\ r.pc \in {"qput_overlap", "qput_update"}
    /\ IF r.pc = "qput_overlap"
       THEN /\ req' = [req EXCEPT ![s] =
                  IF overlappingQuarters({q \in quarters : q.id # r.id},
                                         r.body.startDate,
                                         r.body.endDate) # {}
                  THEN respond(r1, 400,
                         "Updated quarter overlaps with an existing quarter.")
                  ELSE [r1 EXCEPT !.pc = "qput_update"]]
            /\ UNCHANGED quarters
       ELSE IF \E q \in quarters : q.id = r.id
            THEN /\ quarters' = {q \in quarters : q.id # r.id} \cup
                       {[id |-> r.id, name |-> r.body.name,
                         start_date |-> date(r.body.startDate),
                         end_date |-> date(r.body.endDate)]}
                 /\ req' = [req EXCEPT ![s] =
                       respond([r1 EXCEPT !.mutated = TRUE], 200,
                               "Quarter updated successfully.")]
            ELSE /\ req' = [req EXCEPT ![s] = catch(r1)]
                 /\ UNCHANGED quarters
    /\ UNCHANGED <<users, roles, permissions, role_permissions,
                   project_users, farmers, nextFarmerId, issued, tokens,
                   now>>

QuarterNext ==
    \/ \E s \in AdminSlots : QuarterRequest(s)
    \/ \E s \in AdminSlots : AdminAuthorize(s)
    \/ \E s \in AdminSlots : QuartersPost(s)
    \/ \E s \in AdminSlots : QuartersPut(s)
    \/ \E s \in AdminSlots : Retire(s)

\* starts from the README's seed, with no quarter stored
QuarterSpec == AdminInit /\ [][QuarterNext]_vars

-----------------------------------------------------------------------------
\* PUT /api/roles/:id and DELETE /api/roles/:id, one request of the Admin
\* at a time

\* the name and the linked permissions of the role in the store
Role(id) ==
    IF id \notin DOMAIN roles THEN NoRole
    ELSE [role_name |-> roles[id],
          permission_ids |-> {rp.permission_id :
                                rp \in {x \in role_permissions :
                                          x.role_id = id}}]

\* an id no row of permissions has
Missing == Len(ReadmeCodes) + 2

RoleRoutes == {"PUT /api/roles/:id", "DELETE /api/roles/:id"}

\* req.params.id and req.body of a request to the route
RoleInputs(route) ==
    IF route = "PUT /api/roles/:id"
    THEN {[id |-> 2, uid |-> "", body |-> b] :
            b \in {[roleName |-> "Admin"],
                   [roleName |-> "User", permissionIds |-> {Added}],
                   [roleName |-> "Staff", permissionIds |-> {Missing}]}}
    ELSE {[id |-> i, uid |-> "", body |-> Empty] : i \in {2, 3}}

\* A request of the Admin to one of the two routes arrives; before keeps
\* what the role was at that moment
RoleRequest(s) ==
    /\ req[s].pc = "idle"
    /\ \E route \in RoleRoutes : \E input \in RoleInputs(route) :
          req' = [req EXCEPT ![s] =
                    [stack(route,
                           [authorization |-> <<Bearer, SP, tokens["u2"]>>],
                           input)
                       EXCEPT !.before = Role(input.id)]]
    /\ UNCHANGED <<store, issued, tokens, now>>

\* DELETE /api/roles/:id, one store call.  The lookup of the users of the
\* role may fail in the store: usersCheckError is never looked at, and with
\* usersWithRole null the handler goes on.  users.role_id REFERENCES
\* roles(id): the store refuses to delete a role that users have
RolesDelete(s) ==
    LET r == req[s]
        r1 == [r EXCEPT !.lookups = @ + 1]
    IN
    /\ r.pc \in {"rdel_users", "rdel_links", "rdel_role"}
    /\ CASE r.pc = "rdel_users" ->
              /\ \E usersCheckError \in BOOLEAN :
                 LET usersWithRole ==
                         IF usersCheckError THEN {}
                         ELSE {u \in DOMAIN users : users[u].role_id = r.id}
                 IN req' = [req EXCEPT ![s] =
                       IF usersWithRole # {}
                       THEN respond(r1, 400,
                              "Cannot delete role: Users are currently assigned to this role.")
                       ELSE [r1 EXCEPT !.pc = "rdel_links"]]
              /\ UNCHANGED <<roles, role_permissions>>
         [] r.pc = "rdel_links" ->
              /\ role_permissions' =
                    {rp \in role_permissions : rp.role_id # r.id}
              /\ req' = [req EXCEPT ![s] = [r1 EXCEPT !.pc = "rdel_role"]]
              /\ UNCHANGED roles
         [] r.pc = "rdel_role" ->
              IF \E u \in DOMAIN users : users[u].role_id = r.id
              THEN /\ req' = [req EXCEPT ![s] = catch(r1)]
                   /\ UNCHANGED <<roles, role_permissions>>
              ELSE /\ roles' = [i \in DOMAIN roles \ {r.id} |-> roles[i]]
                   /\ req' = [req EXCEPT ![s] =
                         respond(r1, 200, "Role deleted successfully.")]
                   /\ UNCHANGED role_permissions
    /\ UNCHANGED <<users, permissions, project_users, farmers,
                   nextFarmerId, quarters, issued, tokens, now>>

\* AdminInit after POST /api/roles has created the role Manager with the
\* added permission
RoleInit ==
    /\ users = [u \in UserIds |->
                  [role_id |-> IF u = "u2" THEN 1 ELSE 2,
                   is_active |-> TRUE, activation_status |-> TRUE,
                   otp |-> "null", email |-> Email(u),
                   password_hash |-> bcrypt_hash(Password(u))]]
    /\ roles = <<"Admin", "User", "Manager">>
    /\ permissions = [i \in DOMAIN ReadmeCodes \cup {Added} |->
                        IF i = Added THEN "CREATE_FARMER_RECORDS"
                        ELSE ReadmeCodes[i]]
    /\ role_permissions =
          ReadmeLinks \cup {[role_id |-> 3, permission_id |-> Added]}
    /\ project_users = {[project_id |-> 1, user_id |-> "u1"]}
    /\ farmers = [f \in FarmerIds |-> NoFarmer]
    /\ nextFarmerId = 1
    /\ quarters = {}
    /\ issued = [u \in UserIds |-> <<>>]
    /\ now = 0
    /\ tokens = [u \in UserIds |->
                   jwt_sign(u, roles[users[u].role_id], 0)]
    /\ req = [s \in Slots |-> Idle]

RoleNext ==
    \/ \E s \in Slots : RoleRequest(s)
    \/ \E s \in Slots : AdminAuthorize(s)
    \/ \E s \in Slots : RolesPut(s)
    \/ \E s \in Slots : RolesDelete(s)
    \/ \E s \in Slots : Retire(s)

RoleSpec == RoleInit /\ [][RoleNext]_vars

-----------------------------------------------------------------------------
\* Vocabulary of the properties

\* the projects assigned to an identity
Assigned(u) == {pu.project_id : pu \in {x \in project_users : x.user_id = u}}

\* the identity's current role has a link to a permission with this code
Linked(u, code) ==
    \E p \in DOMAIN permissions :
       /\ permissions[p] = code
       /\ [role_id |-> users[u].role_id, permission_id |-> p]
              \in role_permissions

\* the identity's role in the store is the administrator role
IsAdmin(u) == roles[users[u].role_id] = "Admin"

\* the request of slot s arrives in this step
Arrives(s) == req[s].pc = "idle" /\ req'[s].pc # "idle"

\* the Permission Resolver decides on the request of slot s in this step
Decides(s) == req[s].perm = "none" /\ req'[s].perm # "none"

\* the request carries Authorization: Bearer <the token issued to u>
Carries(r, u) == r.headers = [authorization |-> <<Bearer, SP, tokens[u]>>]

FarmerWrites ==
    {"POST /api/farmers", "PUT /api/farmers/:id", "DELETE /api/farmers/:id"}

-----------------------------------------------------------------------------
\* C1: an identity that is inactive (is_active false or activation_status
\* false) when its request arrives gets 403 from authenticateToken on every
\* route and the handler is never reached, although the request carries the
\* correctly signed, unexpired token of that identity.
C1_InactiveRejected ==
    [][\A s \in Slots : \A u \in UserIds :
          ( /\ Arrives(s)
            /\ Carries(req'[s], u)
            /\ now < tokens[u].exp
            /\ (~users[u].is_active \/ ~users[u].activation_status) )
          => /\ req'[s].pc = "done"
             /\ req'[s].res.status = 403
             /\ req'[s].perm = "none"
             /\ ~req'[s].mutated
             /\ store' = store]_vars

C1_Witness ==
    \E s \in Slots : \E u \in UserIds :
       /\ req[s].pc = "done"
       /\ Carries(req[s], u)
       /\ now < tokens[u].exp
       /\ (~users[u].is_active \/ ~users[u].activation_status)
       /\ req[s].res.status = 403
       /\ req[s].res.message = "User is inactive or not found."

\* C2: on farmer create, update and delete, a denial by the Permission
\* Resolver ends the request with 403 and no insert, update or delete is
\* applied to the farmers table.
C2_DenialStopsWrite ==
    \A s \in Slots :
       (req[s].route \in FarmerWrites /\ req[s].perm = "denied")
       => /\ ~req[s].mutated
          /\ req[s].pc = "done" => req[s].res.status = 403

C4_ListNeedsView ==
    \A s \in Slots :
       ( /\ req[s].route = "GET /api/farmers"
         /\ req[s].pc = "done"
         /\ req[s].lookups > 0
         /\ req[s].res.message # "User is inactive or not found."
         /\ ~Linked(req[s].user.userId, "VIEW_FARMER_RECORDS") )
       => req[s].res.status = 403 /\ req[s].rows = {}

\* the request carries a bearer token that does not verify: not a JWT,
\* signed with another key, or signed by the server and past its exp
CarriesBadToken(r) ==
    \/ r.headers = [authorization |-> <<Bearer, SP, Garbage>>]
    \/ \E u \in UserIds :
          \/ r.headers = [authorization |->
                            <<Bearer, SP, Tampered(tokens[u])>>]
          \/ Carries(r, u) /\ now >= tokens[u].exp

NoBearerToken(r) ==
    \/ "authorization" \notin DOMAIN r.headers
    \/ r.headers = [authorization |-> <<Bearer>>]
    \/ r.headers = [authorization |-> <<Bearer, SP>>]

\* C6: a request with no Authorization header, or with a header that has no
\* token after the scheme, is answered 401 before any store lookup and
\* before the handler runs.
C6_NoToken401 ==
    \A s \in Slots :
       (req[s].pc # "idle" /\ NoBearerToken(req[s]))
       => /\ req[s].pc = "done"
          /\ req[s].res.status = 401
          /\ req[s].res.message = "Authentication token required."
          /\ req[s].lookups = 0
          /\ req[s].perm = "none"
          /\ ~req[s].mutated

C6_Witness ==
    \E s \in Slots :
       /\ req[s].pc = "done"
       /\ req[s].headers = [authorization |-> <<Bearer>>]
       /\ req[s].res.status = 401
       /\ req[s].lookups = 0

\* C7: a farmer update by a non-administrator can neither move a farmer
\* into a project the identity is not assigned to nor edit a farmer whose
\* current project is not assigned to it: such a request gets 403 and the
\* farmer row stays as it was.
C7_UpdateInScope ==
    \A s \in Slots :
       ( /\ req[s].route = "PUT /api/farmers/:id"
         /\ req[s].currentProjectId # 0
         /\ ~IsAdmin(req[s].user.userId)
         /\ req[s].user.roleName # "Admin"
         /\ \/ req[s].currentProjectId \notin Assigned(req[s].user.userId)
            \/ req[s].targetProjectId \notin Assigned(req[s].user.userId) )
       => /\ ~req[s].mutated
          /\ req[s].pc = "done" => req[s].res.status = 403

\* C8: once an identity's role has been reassigned in the store, a request
\* made with a token issued before is scoped by the new role: the farmer
\* list of an identity that is no longer an administrator holds farmers of
\* its assigned projects only.
C8_ScopeOfCurrentRole ==
    \A s \in Slots :
       ( /\ req[s].route = "GET /api/farmers"
         /\ req[s].pc = "done"
         /\ req[s].res.status = 200
         /\ ~IsAdmin(req[s].user.userId) )
       => \A f \in req[s].rows :
             farmers[f].project_id \in Assigned(req[s].user.userId)

C10_ListIsAssignedFarmers ==
    \A s \in Slots :
       ( /\ req[s].route = "GET /api/farmers"
         /\ req[s].pc = "done"
         /\ req[s].lookups > 1
         /\ ~IsAdmin(req[s].user.userId) )
       => /\ req[s].res.status = 200
          /\ req[s].rows =
                {f \in DOMAIN farmers :
                   /\ farmers[f].exists
                   /\ farmers[f].project_id
                         \in Assigned(req[s].user.userId)}

\* the project a farmer create writes into, the project of the farmer a
\* delete removes
TargetProject(r) ==
    IF r.route = "POST /api/farmers" THEN Field(r.body, "projectId", 0)
    ELSE r.currentProjectId

\* C11: a farmer create or delete by a non-administrator identity whose
\* target project (the projectId of the create, the project of the farmer
\* to delete) is not assigned to the identity is answered 403 and leaves
\* the farmers table as it was.
C11_WriteInScope ==
    \A s \in Slots :
       ( /\ req[s].route \in {"POST /api/farmers", "DELETE /api/farmers/:id"}
         /\ req[s].user.userId \in DOMAIN users
         /\ req[s].lookups > 0
         /\ ~IsAdmin(req[s].user.userId)
         /\ TargetProject(req[s]) # 0
         /\ TargetProject(req[s]) \notin Assigned(req[s].user.userId) )
       => /\ ~req[s].mutated
          /\ req[s].pc = "done" => req[s].res.status = 403

\* the project of the entity a single-entity read asks for
EntityProject(r) ==
    IF r.route = "GET /api/farmers/:id" THEN farmers[r.id].project_id
    ELSE r.id

\* C15: a non-administrator reading a single farmer or project that belongs
\* to a project the identity is not assigned to gets 403 and none of the
\* entity's data.
C15_ReadInScope ==
    \A s \in Slots :
       ( /\ req[s].route \in {"GET /api/farmers/:id", "GET /api/projects/:id"}
         /\ req[s].pc = "done"
         /\ req[s].lookups > 1
         /\ ~IsAdmin(req[s].user.userId)
         /\ EntityProject(req[s]) \in ProjectIds
         /\ EntityProject(req[s]) \notin Assigned(req[s].user.userId) )
       => /\ req[s].res.status = 403
          /\ req[s].rows = {}

\* C16: for a non-administrator identity GET /api/projects returns only the
\* projects assigned to it through project_users.
C16_ListIsAssignedProjects ==
    \A s \in Slots :
       ( /\ req[s].route = "GET /api/projects"
         /\ req[s].pc = "done"
         /\ req[s].res.status = 200
         /\ ~IsAdmin(req[s].user.userId) )
       => req[s].rows \subseteq Assigned(req[s].user.userId)

\* the user a login or verify-otp request names by its email
Subject(r) == CHOOSE u \in byEmail(r.body.email) : TRUE

\* the place in the log of the code most recently issued to u (0: none)
LastOtp(u) ==
    LET at == {k \in DOMAIN issued[u] : issued[u][k].ev = "otp"}
    IN IF at = {} THEN 0 ELSE CHOOSE k \in at : \A j \in at : j <= k

\* the verify-otp request of slot s reads the user and compares the codes
\* in this step
Compares(s) == req[s].pc = "verify_user" /\ req'[s].pc # "verify_user"

\* the request is answered Invalid and nothing is issued in this step
Invalid(s) ==
    /\ req'[s].pc = "done"
    /\ req'[s].res.status = 400
    /\ req'[s].token = NoToken
    /\ tokens' = tokens
    /\ issued' = issued

\* C12: issuing a new OTP invalidates the one issued before: a verify-otp
\* that submits an earlier code once a later, different code has been
\* issued is answered 400 and no token is issued.
C12_NewCodeInvalidatesOld ==
    [][\A s \in AuthSlots :
          ( /\ Compares(s)
            /\ byEmail(req[s].body.email) # {}
            /\ LET u == Subject(req[s])
                   last == LastOtp(u)
               IN /\ last > 0
                  /\ issued[u][last].otp # req[s].body.otp
                  /\ \E k \in 1..(last - 1) :
                        /\ issued[u][k].ev = "otp"
                        /\ issued[u][k].otp = req[s].body.otp )
          => Invalid(s)]_vars

C12_Witness ==
    \E s \in AuthSlots :
       /\ req[s].route = "POST /api/auth/verify-otp"
       /\ req[s].pc = "done"
       /\ req[s].res.status = 400
       /\ req[s].res.message = "Invalid OTP."
       /\ issued["u1"] = <<[ev |-> "otp", otp |-> req[s].body.otp],
                           [ev |-> "otp", otp |-> users["u1"].otp]>>
       /\ users["u1"].otp # req[s].body.otp

\* C13: an OTP is single-use: once a verify-otp with the current code has
\* succeeded, a later verify-otp with the same code and no login in between
\* is answered 400 and no token is issued.
C13_SingleUse ==
    [][\A s \in AuthSlots :
          ( /\ Compares(s)
            /\ byEmail(req[s].body.email) # {}
            /\ LET u == Subject(req[s])
                   last == LastOtp(u)
               IN /\ last > 0
                  /\ issued[u][last].otp = req[s].body.otp
                  /\ \E k \in (last + 1)..Len(issued[u]) :
                        /\ issued[u][k].ev = "token"
                        /\ issued[u][k].otp = req[s].body.otp )
          => Invalid(s)]_vars

\* C14: a failure of the OTP mail never fails the login: once the code is
\* persisted the answer is 200, and the outcome of the send changes neither
\* the response nor the pending code.
C14_MailFailureSwallowed ==
    [][\A s \in AuthSlots :
          /\ (req[s].pc = "login_update" /\ req'[s].pc # "login_update")
             => /\ req'[s].res.status = 200
                /\ users'[req[s].uid].otp = req[s].otp
          /\ (req[s].pc = "login_mail" /\ req'[s].pc # "login_mail")
             => /\ req'[s].pc = "done"
                /\ req'[s].res = req[s].res
                /\ req'[s].res.status = 200
                /\ users' = users]_vars

C14_Witness ==
    \E s \in AuthSlots :
       /\ req[s].route = "POST /api/auth/login"
       /\ req[s].pc = "done"
       /\ req[s].mail = "failed"
       /\ req[s].res.status = 200
       /\ users[req[s].uid].otp = req[s].otp

\* C17: with the README's seed in place, an Admin identity is Granted by the
\* Permission Resolver for the code of every route.
C17_AdminGrantedOnSeed ==
    \A s \in Slots :
       ( /\ req[s].perm # "none"
         /\ IsAdmin(req[s].user.userId)
         /\ permissions = [i \in DOMAIN ReadmeCodes |-> ReadmeCodes[i]]
         /\ role_permissions = ReadmeLinks )
       => req[s].perm = "granted"

\* the Role-Permission links that reference the permission
Referencing(id) == {rp \in role_permissions : rp.permission_id = id}

\* the request in the slot is inside the handler of the route
Handling(s, route) ==
    /\ req[s].route = route
    /\ req[s].pc \notin {"idle", "authorizePermission", "done"}

\* C18: a permission is never deleted while a Role-Permission link
\* references it: a step of DELETE /api/permissions/:id on a referenced
\* permission answers 400 and changes nothing in the store, whatever the
\* other request does and whether or not the lookup of the links fails, and
\* the permission of each link exists.
C18_NeverDeletedWhileReferenced ==
    [][/\ \A s \in AdminSlots :
             /\ Handling(s, "DELETE /api/permissions/:id")
             /\ req'[s] # req[s]
             /\ Referencing(req[s].id) # {}
             => /\ req'[s].pc = "done"
                /\ req'[s].res.status = 400
                /\ store' = store
       /\ \A rp \in role_permissions' :
             rp.permission_id \in DOMAIN permissions']_vars


\* the role name of the request is held by a row other than its own
Duplicates(r) ==
    \E i \in DOMAIN roles :
       /\ roles[i] = r.body.roleName
       /\ r.route = "PUT /api/roles/:id" => i # r.id

Conflicts ==
    {"Role with this name already exists.",
     "Another role with this name already exists."}

\* C19: a create or rename of a role whose name another role holds is
\* answered 400 with the conflict message and leaves the store unchanged,
\* at its check as well as at its insert or update, in every interleaving
\* of the two requests; role names stay unique.
C19_DuplicateAnswered400 ==
    [][/\ \A s \in AdminSlots :
             /\ req[s].pc \in {"rpost_existing", "rpost_insert",
                               "rput_existing", "rput_update"}
             /\ req'[s] # req[s]
             /\ Duplicates(req[s])
             => /\ req'[s].pc = "done"
                /\ req'[s].res.status = 400
                /\ req'[s].res.message \in Conflicts
                /\ store' = store
       /\ \A i, j \in DOMAIN roles' : roles'[i] = roles'[j] => i = j]_vars


\* the stored quarters other than the request's own whose range the
\* request's range overlaps
Overlapped(r) ==
    overlappingQuarters({q \in quarters : q.id # r.id},
                        r.body.startDate, r.body.endDate)

\* C20: after any interleaving of POST and PUT /api/quarters requests no two
\* stored quarters have overlapping [start_date, end_date] ranges and every
\* stored quarter has start_date < end_date; a request with start >= end,
\* or whose range overlaps another quarter when it reads or writes the
\* store, is answered 400 and changes nothing.
C20_QuartersNeverOverlap ==
    [][/\ \A p, q \in quarters' :
             p.id # q.id => \/ p.end_date < q.start_date
                            \/ q.end_date < p.start_date
       /\ \A q \in quarters' : q.start_date < q.end_date
       /\ \A s \in AdminSlots :
             /\ req[s].route \in QuarterRoutes
             /\ req'[s] # req[s]
             /\ \/ /\ req[s].pc = "authorizePermission"
                   /\ {"startDate", "endDate"} \subseteq DOMAIN req[s].body
                   /\ Date(req[s].body.startDate)
                         >= Date(req[s].body.endDate)
                \/ /\ req[s].pc \in {"qpost_overlap", "qpost_insert",
                                     "qput_overlap", "qput_update"}
                   /\ Overlapped(req[s]) # {}
             => /\ req'[s].pc = "done"
                /\ req'[s].res.status = 400
                /\ store' = store]_vars


\* the verify-otp request of slot s issues its token in this step
Issues(s) ==
    /\ req[s].route = "POST /api/auth/verify-otp"
    /\ req[s].token = NoToken
    /\ req'[s].token # NoToken

\* C21: on a successful verify-otp the pending code is cleared before the
\* session claims are issued: when a verify-otp request issues a token for
\* an identity, the identity's pending OTP in the store has been set to
\* null by that request.
C21_ClearedBeforeIssued ==
    [][\A s \in AuthSlots :
          Issues(s) => /\ req[s].pc = "verify_clear"
                       /\ users'[req[s].uid].otp = "null"]_vars


\* the request of slot s enters the pc in this step
Enters(s, pc) == req[s].pc # pc /\ req'[s].pc = pc

\* C22: a session token for u is issued only by a verify-otp request that
\* found a non-null pending code for u equal to the submitted code; a
\* pending code is written for u only by a login for u that passed the
\* password check and the active-status check; with no pending code,
\* verify-otp answers 400 whatever the submitted code.
C22_TokenOnlyAfterOtp ==
    [][/\ \A s \in AuthSlots :
             /\ Issues(s) => req[s].pc = "verify_clear"
             /\ Enters(s, "verify_clear") =>
                   /\ req[s].pc = "verify_user"
                   /\ byEmail(req[s].body.email) # {}
                   /\ req'[s].uid = Subject(req[s])
                   /\ users[Subject(req[s])].otp # "null"
                   /\ users[Subject(req[s])].otp = req[s].body.otp
             /\ Enters(s, "login_update") =>
                   /\ req[s].pc = "login_user"
                   /\ byEmail(req[s].body.email) # {}
                   /\ req'[s].uid = Subject(req[s])
                   /\ bcrypt_compare(req[s].body.password,
                         users[Subject(req[s])].password_hash)
                   /\ users[Subject(req[s])].is_active
                   /\ users[Subject(req[s])].activation_status
             /\ ( /\ Compares(s)
                  /\ byEmail(req[s].body.email) # {}
                  /\ users[Subject(req[s])].otp = "null" ) => Invalid(s)
       /\ \A u \in UserIds :
             /\ (users'[u].otp # users[u].otp /\ users'[u].otp # "null")
                => \E s \in AuthSlots :
                      /\ req[s].route = "POST /api/auth/login"
                      /\ req[s].pc = "login_update"
                      /\ req[s].uid = u
                      /\ users'[u].otp = req[s].otp
             /\ tokens'[u] # tokens[u]
                => \E s \in AuthSlots : Issues(s) /\ req[s].uid = u]_vars

C22_Witness ==
    \E s \in AuthSlots :
       /\ req[s].route = "POST /api/auth/verify-otp"
       /\ req[s].pc = "done"
       /\ req[s].res.status = 200
       /\ req[s].token = tokens["u1"]
       /\ tokens["u1"] # NoToken
       /\ issued["u1"] = <<[ev |-> "otp", otp |-> req[s].body.otp],
                           [ev |-> "token", otp |-> req[s].body.otp]>>


Inactive(u) == ~users[u].is_active \/ ~users[u].activation_status

\* C23: an identity with is_active = false or activation_status = false is
\* rejected by login and by verify-otp: no OTP is written and no token is
\* issued for an identity that is inactive when the step of the login or
\* verify-otp request runs.
C23_InactiveRejectedAtLogin ==
    [][\A s \in AuthSlots :
          /\ ( /\ req[s].route = "POST /api/auth/login"
               /\ req[s].pc = "login_update"
               /\ req'[s] # req[s]
               /\ Inactive(req[s].uid) )
             => /\ users' = users
                /\ issued' = issued
          /\ Issues(s) => ~Inactive(req[s].uid)]_vars


\* the code of the last write of a login into the pending slot of u
LastWritten(u) ==
    IF LastOtp(u) = 0 THEN "null" ELSE issued[u][LastOtp(u)].otp

\* C24: when login requests for the same identity run concurrently, each
\* write of a login replaces the pending code (last writer wins), the slot
\* holds the code of the last write or null, and the only code that
\* verifies is the one most recently written: a verify-otp submitting any
\* other code is answered 400 and issues nothing.
C24_LastWriterWins ==
    [][/\ \A s \in AuthSlots :
             /\ ( /\ req[s].route = "POST /api/auth/login"
                  /\ req[s].pc = "login_update"
                  /\ req'[s] # req[s] )
                => /\ users'[req[s].uid].otp = req[s].otp
                   /\ LastWritten(req[s].uid)' = req[s].otp
             /\ ( /\ Compares(s)
                  /\ byEmail(req[s].body.email) # {}
                  /\ req[s].body.otp # LastWritten(Subject(req[s])) )
                => Invalid(s)
       /\ \A u \in UserIds :
             users'[u].otp \in {"null", LastWritten(u)'}]_vars

\* two logins for u1 have both written their codes, which differ, and
\* neither has heard back from the transporter yet
C24_Witness ==
    \E s, t \in AuthSlots :
       /\ req[s].route = "POST /api/auth/login"
       /\ req[t].route = "POST /api/auth/login"
       /\ req[s].uid = "u1" /\ req[t].uid = "u1"
       /\ req[s].pc = "login_mail"
       /\ req[t].pc = "login_mail"
       /\ req[s].otp # req[t].otp
       /\ issued["u1"] = <<[ev |-> "otp", otp |-> req[s].otp],
                           [ev |-> "otp", otp |-> req[t].otp]>>
       /\ users["u1"].otp = req[t].otp


\* the places in the log of u of the events of the kind for the code
Events(u, ev, otp) ==
    {k \in DOMAIN issued[u] : issued[u][k].ev = ev /\ issued[u][k].otp = otp}

\* C28: one issued code never yields two tokens: for every identity and
\* code, verify-otp has issued at most as many tokens for the code as logins
\* have issued the code, also when two verify-otp requests submitting the
\* same correct code run concurrently.
C28_OneTokenPerCode ==
    \A u \in UserIds :
       \A k \in DOMAIN issued[u] :
          Cardinality(Events(u, "token", issued[u][k].otp))
             <= Cardinality(Events(u, "otp", issued[u][k].otp))


\* the request carries the unexpired token of an identity that is active
Acceptable(r) ==
    \E u \in UserIds : Carries(r, u) /\ now < tokens[u].exp /\ ~Inactive(u)

\* a permission check has run for the request, or its handler has started
Beyond(r) ==
    \/ r.pc \notin {"idle", "done"}
    \/ r.perm # "none"
    \/ r.lookups > 1
    \/ r.mutated
    \/ r.rows # {}
    \/ r.res.status \notin {0, 401, 403}

\* C25: on the routes behind the Authentication Gate the gate runs first: a
\* request that authenticateToken does not accept is answered 401 or 403
\* with no permission check and no store call of a handler, every later
\* step belongs to a request the gate accepted, and the active-status
\* lookup is made afresh for each request, so the request that arrives
\* after a deactivation is rejected.
C25_GateRunsFirst ==
    [][\A s \in Slots :
          /\ (Arrives(s) /\ ~Acceptable(req'[s]))
             => /\ req'[s].pc = "done"
                /\ req'[s].res.status \in {401, 403}
                /\ ~Beyond(req'[s])
                /\ store' = store
          /\ \A u \in UserIds :
                (Arrives(s) /\ Carries(req'[s], u) /\ now < tokens[u].exp)
                => /\ req'[s].lookups >= 1
                   /\ Inactive(u) =>
                         /\ req'[s].res.status = 403
                         /\ req'[s].res.message =
                               "User is inactive or not found."
          /\ (~Arrives(s) /\ req'[s] # req[s] /\ req'[s].pc # "idle")
             => /\ req[s].user # NoUser
                /\ jwt_verify_ignoreExpiration(BearerToken(req[s].headers))
                /\ req[s].lookups >= 1]_vars

\* u1, deactivated, is rejected on a route that has no permission check
C25_Witness ==
    \E s \in Slots :
       /\ req[s].route = "GET /api/projects"
       /\ req[s].pc = "done"
       /\ Carries(req[s], "u1")
       /\ now < tokens["u1"].exp
       /\ ~users["u1"].is_active
       /\ req[s].lookups = 1
       /\ req[s].res.status = 403
       /\ req[s].res.message = "User is inactive or not found."


\* the two activity flags of the identity
Flags(u) == <<users[u].is_active, users[u].activation_status>>

\* the request of slot s is the update of PUT /api/users/:id on the row of u
UpdatesUser(s, u) ==
    /\ req[s].route = "PUT /api/users/:id"
    /\ req[s].pc = "uput_update"
    /\ req[s].uid = u

\* the role the store gives the identity has a link to the code
Holds(userId, code) ==
    \E rp \in role_permissions :
       /\ rp.role_id = users[userId].role_id
       /\ rp.permission_id \in DOMAIN permissions
       /\ permissions[rp.permission_id] = code

\* the pending OTP of u is changed only by the writes of login and
\* verify-otp
OtpFrame(u) ==
    users'[u].otp # users[u].otp
    => \E s \in AuthSlots :
          /\ req[s].uid = u
          /\ \/ /\ req[s].route = "POST /api/auth/login"
                /\ req[s].pc = "login_update"
             \/ /\ req[s].route = "POST /api/auth/verify-otp"
                /\ req[s].pc = "verify_clear"

C27_OneResponse ==
    \A s \in Slots :
       /\ req[s].writes = 0
       /\ ~req[s].unhandled
       /\ req[s].pc = "done" => req[s].res.status # 0


\* the permissions the store links to the role
LinksOf(id) == {rp.permission_id : rp \in {x \in role_permissions :
                                              x.role_id = id}}

\* the PUT /api/roles/:id request of slot s is answered 200 in this step
RoleUpdated(s) ==
    /\ req[s].route = "PUT /api/roles/:id"
    /\ req[s].pc \in {"rput_delete", "rput_insert"}
    /\ req'[s].pc = "done"
    /\ req'[s].res.status = 200

\* C29: when a PUT /api/roles/:id succeeds, the role's permission links are
\* exactly the request's permissionIds (none when permissionIds is
\* omitted), also when two updates of the same role interleave: the links
\* are never a mixture of the two requests' sets.
C29_LinksAreTheRequests ==
    [][\A s \in AdminSlots :
          RoleUpdated(s)
          => LinksOf(req[s].id)' = Field(req[s].body, "permissionIds", {})]_vars


\* C30: a PUT /api/roles/:id or DELETE /api/roles/:id that is answered with
\* an error (400, 404 or 500) leaves the role's name and its permission
\* links exactly as they were when the request arrived.
C30_ErrorLeavesRoleUnchanged ==
    [][\A s \in Slots :
          ( /\ req[s].route \in RoleRoutes
            /\ req[s].pc # "done"
            /\ req'[s].pc = "done"
            /\ req'[s].res.status \in {400, 404, 500} )
          => Role(req[s].id)' = req[s].before]_vars

=============================================================================
